---- MODULE Spec2Model ----
(***************************************************************************)
(* Truncatable-prime enumerator (code/truncatable_primes/truncprimes.c,    *)
(* with the pre-filtering build truncprimes_test.c as a second variant)    *)
(* and the tree reader (tree_convert.c), as one state machine.             *)
(* truncprimes.c is built either with WRITE_TREE (the byte stream) or with *)
(* WRITE_STATS (the statistics table and the tree hash).                   *)
(*                                                                         *)
(* A behaviour is a sequence of process invocations that share base,      *)
(* prime type and max_length: the first run uses the configured root, the  *)
(* reader then converts its byte stream, and, when the first run was a     *)
(* full-tree run (root 0), one further run is made for every root of the   *)
(* initial expansion, each with that value as its explicit root.           *)
(***************************************************************************)
EXTENDS Integers, Sequences, FiniteSets, TLC

(* ------------------------------ bounds --------------------------------- *)
MaxBase == 4        \* bases 2..MaxBase are explored on the full grid
MaxLen == 3         \* max_length arguments 0..MaxLen
MaxRoot == 5        \* root arguments 0..MaxRoot
MaxDepth == 4       \* recursion is not followed deeper than this
SieveLimit == 20000 \* the oracle is exact below SieveLimit^2

(* --------------------------- program constants ------------------------- *)
END_BYTE == 255         \* write_byte(255): end of a tree, and the root value
TEST_ROOT_BYTE == 0     \* truncprimes_test.c writes 0 for the root value
DEFAULT_BASE == 10      \* _g_base = 10
MAX_BASE == 255         \* base out of valid range (2-255)
LIMB == 65536           \* a uint32_t is kept as two 16 bit halves <<hi, lo>>

Variants == {"truncprimes", "truncprimes_test"}
Builds == {"tree", "stats"}
PrimeTypes == {"r", "l", "lor", "lar"}

(* ------------------------ 32 bit unsigned values ----------------------- *)
U32(n) == <<n \div LIMB, n % LIMB>>

U32Sub(a, b) ==
  LET lo == a[2] - b[2]
      borrow == IF lo < 0 THEN 1 ELSE 0
      hi == a[1] - b[1] - borrow
  IN  <<hi % LIMB, lo % LIMB>>

U32Le(a, b) == a[1] < b[1] \/ (a[1] = b[1] /\ a[2] <= b[2])

U32Lt(a, b) == a[1] < b[1] \/ (a[1] = b[1] /\ a[2] < b[2])

(* ------------------------ 64 bit unsigned values ----------------------- *)
\* a uint64_t is kept as four 16 bit parts <<w3, w2, w1, w0>>, w3 the highest
U64Zero == <<0, 0, 0, 0>>

\* the value of four unnormalised parts modulo 2^64
U64Norm(x) ==
  LET n0 == x[4]
      n1 == x[3] + (n0 \div LIMB)
      n2 == x[2] + (n1 \div LIMB)
      n3 == x[1] + (n2 \div LIMB)
  IN  <<n3 % LIMB, n2 % LIMB, n1 % LIMB, n0 % LIMB>>

\* a small non-negative integer as uint64_t
U64Of(n) == <<0, 0, n \div LIMB, n % LIMB>>

U64Add(a, b) == U64Norm(<<a[1] + b[1], a[2] + b[2], a[3] + b[3], a[4] + b[4]>>)
U64Sub(a, b) == U64Norm(<<a[1] - b[1], a[2] - b[2], a[3] - b[3], a[4] - b[4]>>)

\* a * k modulo 2^64 for a small factor k
U64MulSmall(a, k) == U64Norm(<<a[1] * k, a[2] * k, a[3] * k, a[4] * k>>)

RECURSIVE Xor(_, _)
\* bitwise exclusive or of two non-negative integers
Xor(a, b) ==
  IF a = 0 THEN b
  ELSE IF b = 0 THEN a
  ELSE (((a % 2) + (b % 2)) % 2) + 2 * Xor(a \div 2, b \div 2)

U64Xor(a, b) == <<Xor(a[1], b[1]), Xor(a[2], b[2]), Xor(a[3], b[3]), Xor(a[4], b[4])>>

\* a >> 1
U64Shr1(a) ==
  <<a[1] \div 2,
    a[2] \div 2 + (a[1] % 2) * (LIMB \div 2),
    a[3] \div 2 + (a[2] % 2) * (LIMB \div 2),
    a[4] \div 2 + (a[3] % 2) * (LIMB \div 2)>>

(* ------------------------------ mpz values ----------------------------- *)
\* an mpz_t beyond the machine word is a sequence of 16 bit parts, highest
\* first; the values the enumerator reaches here fit two parts
Mpz(n) == <<n \div LIMB, n % LIMB>>

\* the lowest 48 bits only
mpz_get_ui_48(m) ==
  [i \in 1..4 |-> IF i >= 2 /\ Len(m) - 4 + i >= 1 THEN m[Len(m) - 4 + i] ELSE 0]

\* mpz_get_ui(m): the lowest 64 bits of m
mpz_get_ui(m) ==
  [i \in 1..4 |-> IF Len(m) - 4 + i >= 1 THEN m[Len(m) - 4 + i] ELSE 0]

(* ------------------------------ the oracle ----------------------------- *)
\* the least r with r * r >= SieveLimit
SieveRoot == CHOOSE r \in 1..SieveLimit : r * r >= SieveLimit /\ (r - 1) * (r - 1) < SieveLimit

\* trial division of n <= SieveLimit by d, d + 1, ... up to the root of n
TrialDiv(n, d) == \A e \in d..SieveRoot : e * e > n \/ n % e # 0

SmallPrimes == {n \in 2..SieveLimit : TrialDiv(n, 2)}

\* PRIME_TEST(n): mpz_probab_prime_p(n,0), exact on the values explored
IsPrime(n) == n >= 2 /\ \A p \in SmallPrimes : p * p > n \/ n % p # 0

(* ----------------------------- digit helpers --------------------------- *)
RECURSIVE NumDigits(_, _)
\* the digit counting loop: while (root > 0) ++rlen, root /= base
NumDigits(n, b) == IF n > 0 THEN 1 + NumDigits(n \div b, b) ELSE 0

RECURSIVE Pow(_, _)
Pow(b, k) == IF k = 0 THEN 1 ELSE b * Pow(b, k - 1)

Last(s) == s[Len(s)]
Front(s) == SubSeq(s, 1, Len(s) - 1)
Range(s) == {s[i] : i \in 1..Len(s)}

VARIABLES
  variant,        \* which source file of the enumerator runs
  build,          \* WRITE_TREE or WRITE_STATS
  g_base,         \* _g_base
  g_prime_type,   \* _g_prime_type
  g_maxlength,    \* _g_maxlength (uint32, as U32 halves)
  arg_root,       \* the root argument of the first run
  g_root,         \* _g_root of the current run
  g_depth,        \* _g_depth
  g_maxdepth,     \* _g_maxdepth (uint32, as U32 halves)
  g_rlen,         \* _g_rlen
  g_stack,        \* _g_stack[0.._g_slen-1]
  g_slen,         \* _g_slen
  g_powers,       \* _g_powers[0.._g_plen-1]
  g_plen,         \* _g_plen
  frames,         \* locals of the active primes_r/l/lor/lar calls, each with the
                  \* depth (at) and the stack (saved) it was called with
  top,            \* which setup function made the outermost call
  iroot,          \* loop variables of primes_init_1digit / primes_init_2digit
  pc,             \* position of the enumerator
  out,            \* bytes passed to write_byte, in order
  emitted,        \* history: the nodes found prime and recursed into
  g_counts,       \* _g_counts[0.._g_slen-1][0.._g_max_children-1]
  g_pmin,         \* _g_pmin, same shape
  g_pmax,         \* _g_pmax, same shape
  hash,           \* the local hash of primes_*_init / h of the root loops
  stats_out,      \* the table rows write_stats has printed
  hash_out,       \* the value write_hash has printed, <<>> before
  counted,        \* history: the nodes counted, in the order of counting
  runs,           \* history: the finished runs
  r_pc,           \* position of the reader (tree_convert)
  r_pos,          \* bytes the reader has consumed
  r_depth,        \* tree_convert _g_depth
  r_rlen,         \* tree_convert _g_rlen
  r_stack,        \* tree_convert _g_stack
  r_slen,         \* tree_convert _g_slen
  r_powers,       \* tree_convert _g_powers
  r_plen,         \* tree_convert _g_plen
  r_frames,       \* locals of the active reading functions
  r_out,          \* the numbers passed to write_number, in order
  r_err,          \* the error the reader stopped with, "" if none
  h_in,           \* the tree handed to the hashing function on its own
  h_acc,          \* the hashing function on its own: position and hashes
  p_in,           \* the arguments a, b of the prime type checker functions
  p_out,          \* the checker function called and what it returned
  TP_next,        \* truncprimes2.c TP_next: which TP_next_* function is called
  tp_state,       \* the TP_STATE of process_root
  tp_value,       \* the TP_VALUE of process_root
  tp_ret,         \* the bytes of process_root the calls write to
  tp_pc,          \* "idle" between two calls of TP_next, "loop" within one
  tp_out,         \* what the calls of TP_next have returned, in order
  tp_pair,        \* two generators of one program, each with what its calls returned
  tp_r,           \* truncprimes2.c main(): the loop variable r, 0 outside the loop
  sp              \* truncprimes_test.c on values beyond the machine word: the
                  \* stack of values and residues, the powers, the loops

enumVars == <<g_root, g_depth, g_maxdepth, g_rlen, g_stack, g_slen, g_powers,
              g_plen, frames, top, iroot, pc, out, emitted, g_counts, g_pmin,
              g_pmax, hash, stats_out, hash_out, counted>>
statVars == <<g_counts, g_pmin, g_pmax, hash, stats_out, hash_out, counted>>
cfgVars == <<variant, build, g_base, g_prime_type, g_maxlength, arg_root>>
readVars == <<r_pc, r_pos, r_depth, r_rlen, r_stack, r_slen, r_powers, r_plen,
              r_frames, r_out, r_err>>
hashVars == <<h_in, h_acc>>
predVars == <<p_in, p_out>>
genVars == <<TP_next, tp_state, tp_value, tp_ret, tp_pc, tp_out, tp_pair, tp_r, sp>>
auxVars == <<hashVars, predVars, genVars>>
progVars == <<cfgVars, enumVars, runs, readVars>>
vars == <<cfgVars, auxVars, enumVars, runs, readVars>>


TypeIs(t) == g_prime_type = t
TwoByte == g_prime_type \in {"lor", "lar"}
WRITE_TREE == build = "tree"
WRITE_STATS == build = "stats"

(* ------------------------- globals and helpers ------------------------- *)
\* the value written for the root: 255 in truncprimes.c, 0 in the test build
RootByte == IF variant = "truncprimes" THEN END_BYTE ELSE TEST_ROOT_BYTE

RootValue == IF TwoByte THEN <<RootByte, RootByte>> ELSE <<RootByte>>

\* the root length not subtracted
MaxDepthRootNoSub(rlen) == g_maxlength

\* _g_maxdepth as primes_init_root computes it from the root length
MaxDepthRoot(rlen) ==
  IF variant = "truncprimes"
  THEN U32Sub(g_maxlength, U32(rlen))
  ELSE \* the test build evaluates the expression while _g_rlen is still 0
       IF U32Le(U32(0), g_maxlength) THEN U32Sub(g_maxlength, U32(0)) ELSE U32(0)

\* the length of the roots not subtracted
MaxDepthDigitsNoSub(k) == g_maxlength

\* _g_maxdepth as primes_init_1digit / primes_init_2digit compute it
MaxDepthDigits(k) ==
  IF variant = "truncprimes"
  THEN U32Sub(g_maxlength, U32(k))
  ELSE IF U32Le(U32(k), g_maxlength) THEN U32Sub(g_maxlength, U32(k)) ELSE U32(0)

\* ensure_stack_space(i): new entries are mpz_init'ed to 0
ensure_stack_space(stack, slen, i) ==
  IF i >= slen
  THEN [j \in 0..i |-> IF j < slen THEN stack[j] ELSE 0]
  ELSE stack

\* get_power(p) with new entries copied from the last one, not multiplied
get_power_NoMul(powers, plen, p, base) ==
  IF p >= plen
  THEN [k \in 0..p |-> IF k < plen THEN powers[k] ELSE powers[plen - 1]]
  ELSE powers

RECURSIVE get_power(_, _, _, _)
\* get_power(p): the table after the call; entries plen..p are appended
get_power(powers, plen, p, base) ==
  IF p >= plen
  THEN get_power(powers @@ (plen :> powers[plen - 1] * base), plen + 1, p, base)
  ELSE powers

PlenAfter(plen, p) == IF p >= plen THEN p + 1 ELSE plen

\* the power index of a 1-digit root whatever the root
POWER_INDEX_OneDigit(rlen, depth) == depth

\* the index in POWER_CURR of primes_l and primes_lor
POWER_INDEX(rlen, depth) == rlen + depth - 1

\* one digit position per level, as in the other modes
LAR_POWER_INDEX_Single(rlen, depth) == rlen + depth - 1

\* #define LAR_POWER_INDEX (_g_rlen + (_g_depth << 1) - 1)
LAR_POWER_INDEX(rlen, depth) == rlen + 2 * depth - 1

\* the parent added to the base instead of multiplied by it
ShiftLeftAdd(prev) == prev + g_base

\* mpz_mul_ui(STACK_CURR,STACK_PREV,_g_base): a 0 digit on the right
ShiftLeft(prev) == prev * g_base

\* the digit written one less
LabelRLMinusOne(d) == <<d - 1>>

\* the value byte of a child in primes_r and primes_l: write_byte(d)
LabelRL(d) == <<d>>

\* the side byte the other way round
LabelLorSwapped(side, d) == <<1 - side, d>>

\* the value bytes of a child in primes_lor: write_byte(side); write_byte(d)
LabelLor(side, d) == <<side, d>>

\* both digits packed into one byte
LabelLarPacked(dl, dr) == <<dl * g_base + dr>>

\* the value bytes of a child in primes_lar: write_byte(dl); write_byte(dr)
LabelLar(dl, dr) == <<dl, dr>>

\* a second end byte for each tree
WriteEndTwice(o) == Append(Append(o, END_BYTE), END_BYTE)

\* write_byte(255); // end
WriteEnd(o) == Append(o, END_BYTE)

\* the digit added without regard to the previous sibling
ReaderAddRNoPrev(cur, d, dprev) == cur + d

\* tree_convert primes_r: mpz_add_ui(STACK_CURR,STACK_CURR,d-dprev)
ReaderAddR(cur, d, dprev) == cur + (d - dprev)

(* ------------------------- statistics and hash ------------------------- *)
\* arrays with one column for each digit 1..base-1 only
MaxChildrenDigits(ptype, base) == base - 1

\* init_globals: _g_max_children from the prime type and the base
MaxChildren(ptype, base) ==
  IF ptype = "lor" THEN 2 * base
  ELSE IF ptype = "lar" THEN base * base
  ELSE base

g_max_children == MaxChildren(g_prime_type, g_base)

\* one row of _g_counts, _g_pmin or _g_pmax as calloc / mpz_init leave it
ZeroRow == [k \in 0..(g_max_children - 1) |-> 0]

\* ensure_stack_space(i) for _g_counts, _g_pmin and _g_pmax
ensure_stat_space(tbl, slen, i) ==
  IF i >= slen
  THEN [j \in 0..i |-> IF j < slen THEN tbl[j] ELSE ZeroRow]
  ELSE tbl

\* the minimum without the test for no value yet
update_min_NoZero(pmin, depth, cc, val) ==
  IF pmin[depth][cc] > val
  THEN [pmin EXCEPT ![depth][cc] = val]
  ELSE pmin

\* update_min_max(cc): the minimum, 0 standing for no value yet
update_min(pmin, depth, cc, val) ==
  IF pmin[depth][cc] = 0 \/ pmin[depth][cc] > val
  THEN [pmin EXCEPT ![depth][cc] = val]
  ELSE pmin

\* update_min_max(cc): the maximum
update_max(pmax, depth, cc, val) ==
  IF pmax[depth][cc] < val
  THEN [pmax EXCEPT ![depth][cc] = val]
  ELSE pmax

\* the seed without the shift
HASH_INIT_NoShift(prev) == mpz_get_ui(prev)

\* #define HASH_INIT (mpz_get_ui(STACK_PREV)>>1)
HASH_INIT(prev) == U64Shr1(mpz_get_ui(prev))

\* the path number left out
HASH_DIGIT_NoLabel(h, d) == U64MulSmall(h, 127)

\* #define HASH_DIGIT(h,d) (127*(h) - (d))
HASH_DIGIT(h, d) == U64Sub(U64MulSmall(h, 127), U64Of(d))

\* #define HASH_CHILD(h,c) (8191*(h) + (c))
HASH_CHILD(h, c) == U64Add(U64MulSmall(h, 8191), c)

\* #define HASH_SWAP(h) (((h) >> 32) | ((h) << 32))
HASH_SWAP(h) == <<h[3], h[4], h[1], h[2]>>

\* #define HASH_UPDATE(h,d,c) ((h)^HASH_SWAP(HASH_CHILD(HASH_DIGIT(h,d),c)))
HASH_UPDATE(h, d, c) == U64Xor(h, HASH_SWAP(HASH_CHILD(HASH_DIGIT(h, d), c)))

\* the right digit alone as path number
PathNumberDigit(f) == f.d

\* the second argument of HASH_UPDATE in the digit loops, from the loop
\* variables of the calling frame
PathNumber(f) ==
  CASE TypeIs("r") \/ TypeIs("l") -> f.d
    [] TypeIs("lor") -> IF f.s = 0 THEN f.d ELSE g_base + f.d
    [] TypeIs("lar") -> f.s * g_base + f.d

RECURSIVE CountAllButLeaves(_, _)
\* count_all without the column of the nodes that have no children
CountAllButLeaves(row, k) ==
  IF k <= 1 THEN 0 ELSE CountAllButLeaves(row, k - 1) + row[k - 1]

RECURSIVE CountAll(_, _)
\* write_stats: count_all over the columns 0..k-1
CountAll(row, k) == IF k = 0 THEN 0 ELSE CountAll(row, k - 1) + row[k - 1]

RECURSIVE MinAll(_, _)
\* write_stats: min_all over the columns 0..k-1
MinAll(row, k) ==
  IF k = 0 THEN 0
  ELSE LET m == MinAll(row, k - 1)
       IN  IF m = 0 \/ (m > row[k - 1] /\ row[k - 1] # 0) THEN row[k - 1] ELSE m

RECURSIVE MaxAll(_, _)
\* write_stats: max_all over the columns 0..k-1
MaxAll(row, k) ==
  IF k = 0 THEN 0
  ELSE LET m == MaxAll(row, k - 1)
       IN  IF m < row[k - 1] THEN row[k - 1] ELSE m

\* write_stats(mult, header): the rows printed, one for every recursion
\* level that has a nonzero count
write_stats(mult, counts, pmin, pmax, slen, rlen) ==
  LET row(i) == [digits |-> rlen + i * mult,
                 all |-> CountAll(counts[i], g_max_children),
                 counts |-> counts[i],
                 min_all |-> MinAll(pmin[i], g_max_children),
                 max_all |-> MaxAll(pmax[i], g_max_children),
                 pmin |-> pmin[i],
                 pmax |-> pmax[i]]
  IN  SelectSeq([i \in 1..slen |-> row(i - 1)], LAMBDA r : r.all # 0)

\* the mult argument of write_stats
\* every mode taken to add one digit per level
StatsMultOne == IF TypeIs("lar") THEN 1 ELSE 1

\* the first argument of write_stats: the digits added per recursion level
StatsMult == IF TypeIs("lar") THEN 2 ELSE 1

Node(v, p, lab, lvl) == [v |-> v, p |-> p, lab |-> lab, lvl |-> lvl]

Configs ==
  [variant : Variants, build : {"tree"}, base : 2..MaxBase, ptype : PrimeTypes,
   maxlength : 0..MaxLen, root : 0..MaxRoot]
  \cup [variant : {"truncprimes"}, build : {"stats"}, base : 2..MaxBase,
        ptype : PrimeTypes, maxlength : 0..MaxLen, root : 0..MaxRoot]
  \cup {[variant |-> "truncprimes", build |-> "tree", base |-> DEFAULT_BASE,
         ptype |-> "r", maxlength |-> 3, root |-> 0]}
  \cup [variant : {"truncprimes"}, build : {"tree"}, base : {MAX_BASE},
        ptype : {"r", "l", "lor"}, maxlength : {2}, root : {1}]
  \cup {[variant |-> "truncprimes", build |-> "tree", base |-> DEFAULT_BASE,
         ptype |-> "lar", maxlength |-> 4, root |-> 3]}

\* the hashing function on its own not started, on the tree of a single 0
HashIdle == [pos |-> -1, h |-> U64Zero, g |-> U64Zero]
NoTree == [value |-> <<0>>, kids |-> <<>>]

\* main(): arguments parsed, init_globals() done
InitWith(c) ==
    /\ variant = c.variant
    /\ build = c.build
    /\ g_base = c.base
    /\ g_prime_type = c.ptype
    /\ g_maxlength = U32(c.maxlength)
    /\ arg_root = c.root
    /\ g_root = c.root
    /\ g_depth = 0
    /\ g_maxdepth = U32(0)
    /\ g_rlen = 0
    /\ g_stack = [j \in 0..0 |-> 0]
    /\ g_slen = 1
    /\ g_powers = [j \in 0..0 |-> 1]
    /\ g_plen = 1
    /\ frames = <<>>
    /\ top = "none"
    /\ iroot = [l |-> 0, r |-> 0]
    /\ pc = "main"
    /\ out = <<>>
    /\ emitted = <<>>
    /\ g_counts = [j \in 0..0 |-> [k \in 0..(MaxChildren(c.ptype, c.base) - 1) |-> 0]]
    /\ g_pmin = [j \in 0..0 |-> [k \in 0..(MaxChildren(c.ptype, c.base) - 1) |-> 0]]
    /\ g_pmax = [j \in 0..0 |-> [k \in 0..(MaxChildren(c.ptype, c.base) - 1) |-> 0]]
    /\ hash = U64Zero
    /\ stats_out = <<>>
    /\ hash_out = <<>>
    /\ counted = <<>>
    /\ runs = <<>>
    /\ r_pc = "idle"
    /\ r_pos = 0
    /\ r_depth = 0
    /\ r_rlen = 0
    /\ r_stack = [j \in 0..0 |-> 0]
    /\ r_slen = 1
    /\ r_powers = [j \in 0..0 |-> 1]
    /\ r_plen = 1
    /\ r_frames = <<>>
    /\ r_out = <<>>
    /\ r_err = ""

\* the hashing function on its own is not in use
HashOff == h_in = NoTree /\ h_acc = HashIdle

\* no checker function has been called
NoCall == [fn |-> "none", ret |-> FALSE]
PredOff == p_in = [a |-> 0, b |-> 2] /\ p_out = NoCall

\* no generator is driven by a main()
DriverOff ==
  /\ TP_next = "none"
  /\ tp_state = [depth |-> 0]
  /\ tp_value = [len |-> 0]
  /\ tp_ret = <<0, 0>>
  /\ tp_pc = "idle"
  /\ tp_out = <<>>
  /\ tp_r = 0

\* no generator has been made
GenOff == DriverOff /\ tp_pair = <<>> /\ sp = [pc |-> "off"]

\* the enumerator and the reader as one fixed command line leaves them
ProgOff ==
  InitWith([variant |-> "truncprimes", build |-> "stats", base |-> MAX_BASE,
            ptype |-> "r", maxlength |-> 2, root |-> 0])

Init ==
  \E c \in Configs :
    /\ InitWith(c)
    /\ HashOff
    /\ PredOff
    /\ GenOff

\* init_globals(): the statistics arrays with one zeroed row
InitStats == [j \in 0..0 |-> ZeroRow]

\* the end of primes_*_init and of main(): in the statistics build
\* write_stats prints the table of the final arrays st (primes_lar_init with
\* no root prints the table of the 1-digit roots, clears the arrays and prints
\* the table of the 2-digit roots) and write_hash prints h; the buffer is
\* flushed and the run is over
Finish(o, h, st) ==
  LET cleared == TypeIs("lar") /\ top # "root" /\ top # "roots2"
      rows == IF WRITE_STATS
              THEN write_stats(StatsMult, st.counts, st.pmin, st.pmax, g_slen, g_rlen)
              ELSE <<>>
  IN  /\ pc' = "exit"
      /\ out' = o
      /\ hash' = h
      /\ hash_out' = IF WRITE_STATS THEN <<h>> ELSE <<>>
      /\ stats_out' = stats_out \o rows
      /\ g_counts' = IF WRITE_STATS /\ cleared THEN InitStats ELSE st.counts
      /\ g_pmin' = IF WRITE_STATS /\ cleared THEN InitStats ELSE st.pmin
      /\ g_pmax' = IF WRITE_STATS /\ cleared THEN InitStats ELSE st.pmax
      /\ counted' = st.counted
      /\ runs' = Append(runs, [root |-> g_root, out |-> o, emitted |-> emitted,
                               hash |-> h, stats |-> stats_out \o rows,
                               counted |-> st.counted])

\* the statistics arrays as they are
CurStats == [counts |-> g_counts, pmin |-> g_pmin, pmax |-> g_pmax, counted |-> counted]

\* write_byte(b) appends to the stream in the tree build and does nothing in
\* the statistics build
Written(o) == IF WRITE_TREE THEN o ELSE <<>>

(* ------------------- primes_r_init .. primes_lar_init ------------------ *)
\* the setup up to the first call or loop: primes_init_root for an explicit
\* root, else the root value and the entry of primes_init_1digit
Main ==
  /\ pc = "main"
  /\ IF g_root > 0
     THEN /\ out' = Written(RootValue)
          /\ g_stack' = [g_stack EXCEPT ![0] = g_root]
          /\ g_depth' = 0
          /\ g_rlen' = NumDigits(g_root, g_base)
          /\ g_maxdepth' = MaxDepthRoot(NumDigits(g_root, g_base))
          /\ top' = "root"
          /\ pc' = "enter"
          /\ UNCHANGED <<iroot, runs, statVars>>
     ELSE IF U32Lt(g_maxlength, U32(1))
     THEN /\ Finish(Written(RootValue \o <<END_BYTE>>), hash, CurStats)
          /\ UNCHANGED <<g_stack, g_depth, g_rlen, g_maxdepth, top, iroot>>
     ELSE /\ out' = Written(RootValue)
          /\ top' = "roots1"
          /\ iroot' = [l |-> 0, r |-> 2]
          /\ pc' = "roots1"
          /\ UNCHANGED <<g_stack, g_depth, g_rlen, g_maxdepth, runs, statVars>>
  /\ UNCHANGED <<cfgVars, auxVars, readVars, g_root, g_slen, g_powers, g_plen, frames, emitted>>

\* one iteration of the root loop of primes_init_1digit
Roots1Step ==
  /\ pc = "roots1"
  /\ iroot.r < g_base
  /\ g_stack' = [g_stack EXCEPT ![0] = iroot.r]
  /\ g_depth' = 0
  /\ g_rlen' = 1
  /\ g_maxdepth' = MaxDepthDigits(1)
  /\ IF IsPrime(iroot.r)
     THEN LET lab == IF TwoByte THEN <<0, iroot.r>> ELSE <<iroot.r>>
          IN  /\ out' = Written(out \o lab)
              /\ emitted' = Append(emitted, Node(iroot.r, 0, lab, 0))
              /\ pc' = "enter"
              /\ UNCHANGED iroot
     ELSE /\ iroot' = [iroot EXCEPT !.r = @ + 1]
          /\ UNCHANGED <<out, emitted, pc>>
  /\ UNCHANGED <<cfgVars, auxVars, readVars, g_root, g_slen, g_powers, g_plen, frames, top, runs,
                 statVars>>

\* primes_init_1digit returns: lar goes on with primes_init_2digit (in the
\* statistics build after write_stats, clear_globals and init_globals), the
\* others write the end byte
Roots1Done ==
  /\ pc = "roots1"
  /\ iroot.r >= g_base
  /\ IF TypeIs("lar") /\ ~U32Lt(g_maxlength, U32(2))
     THEN /\ pc' = "roots2"
          /\ top' = "roots2"
          /\ iroot' = [l |-> 1, r |-> 0]
          /\ UNCHANGED <<out, runs, hash, hash_out, counted>>
          /\ IF WRITE_STATS
             THEN /\ stats_out' = stats_out \o
                       write_stats(StatsMult, g_counts, g_pmin, g_pmax, g_slen, g_rlen)
                  /\ g_counts' = InitStats
                  /\ g_pmin' = InitStats
                  /\ g_pmax' = InitStats
             ELSE UNCHANGED <<stats_out, g_counts, g_pmin, g_pmax>>
     ELSE /\ Finish(Written(Append(out, END_BYTE)), hash, CurStats)
          /\ UNCHANGED <<top, iroot>>
  /\ IF WRITE_STATS /\ TypeIs("lar")
     THEN /\ g_stack' = [j \in 0..0 |-> 0]
          /\ g_slen' = 1
          /\ g_powers' = [j \in 0..0 |-> 1]
          /\ g_plen' = 1
     ELSE UNCHANGED <<g_stack, g_slen, g_powers, g_plen>>
  /\ UNCHANGED <<cfgVars, auxVars, readVars, g_root, g_depth, g_maxdepth, g_rlen, frames, emitted>>

NextRoot2(ir) ==
  IF ir.r + 1 < g_base THEN [ir EXCEPT !.r = @ + 1]
  ELSE [l |-> ir.l + 1, r |-> 0]

\* one iteration of the rootl/rootr loops of primes_init_2digit
Roots2Step ==
  /\ pc = "roots2"
  /\ iroot.l < g_base
  /\ LET root == iroot.l * g_base + iroot.r
     IN  /\ g_stack' = [g_stack EXCEPT ![0] = root]
         /\ g_depth' = 0
         /\ g_rlen' = 2
         /\ g_maxdepth' = MaxDepthDigits(2)
         /\ IF IsPrime(root)
            THEN /\ out' = Written(out \o <<iroot.l, iroot.r>>)
                 /\ emitted' = Append(emitted,
                                      Node(root, 0, <<iroot.l, iroot.r>>, 0))
                 /\ pc' = "enter"
                 /\ UNCHANGED iroot
            ELSE /\ iroot' = NextRoot2(iroot)
                 /\ UNCHANGED <<out, emitted, pc>>
  /\ UNCHANGED <<cfgVars, auxVars, readVars, g_root, g_slen, g_powers, g_plen, frames, top, runs,
                 statVars>>

\* primes_init_2digit returns and primes_lar_init writes the end byte
Roots2Done ==
  /\ pc = "roots2"
  /\ iroot.l >= g_base
  /\ Finish(Written(Append(out, END_BYTE)), hash, CurStats)
  /\ UNCHANGED <<cfgVars, auxVars, readVars, g_root, g_depth, g_maxdepth, g_rlen, g_stack, g_slen,
                 g_powers, g_plen, frames, top, iroot, emitted>>

(* --------------- primes_r, primes_l, primes_lor, primes_lar ------------ *)
STACK_CURR == g_stack[g_depth]
STACK_PREV == g_stack[g_depth - 1]
Frame == frames[Len(frames)]

\* the depth test with < for <=
WithinLimitStrict(depth) ==
  IF TypeIs("lar") THEN U32Lt(U32(2 * depth), g_maxdepth)
  ELSE U32Lt(U32(depth), g_maxdepth)

\* the depth test at the head of the recursion functions
WithinLimit(depth) ==
  IF TypeIs("lar") THEN U32Le(U32(2 * depth), g_maxdepth)
  ELSE U32Le(U32(depth), g_maxdepth)

\* function entry: ++_g_depth, the depth test, CHECK_STACK and the value the
\* digit loop starts from (lar: shifted left, with the first left digit added)
Enter ==
  /\ pc = "enter"
  /\ g_depth < MaxDepth
  /\ LET depth == g_depth + 1
         stack == ensure_stack_space(g_stack, g_slen, depth)
         pidx == LAR_POWER_INDEX(g_rlen, depth)
         powers == get_power(g_powers, g_plen, pidx, g_base)
     IN  /\ g_depth' = depth
         /\ frames' = Append(frames, [d |-> 1, s |-> IF TypeIs("lar") THEN 1 ELSE 0,
                                      at |-> g_depth,
                                      saved |-> [j \in 0..g_depth |-> g_stack[j]],
                                      children |-> 0,
                                      hash |-> IF WRITE_STATS
                                               THEN HASH_INIT(Mpz(g_stack[g_depth]))
                                               ELSE U64Zero])
         /\ IF WithinLimit(depth) /\ WRITE_STATS
            THEN /\ g_counts' = ensure_stat_space(g_counts, g_slen, depth)
                 /\ g_pmin' = ensure_stat_space(g_pmin, g_slen, depth)
                 /\ g_pmax' = ensure_stat_space(g_pmax, g_slen, depth)
            ELSE UNCHANGED <<g_counts, g_pmin, g_pmax>>
         /\ UNCHANGED <<hash, stats_out, hash_out, counted>>
         /\ IF WithinLimit(depth)
            THEN /\ g_slen' = IF depth >= g_slen THEN depth + 1 ELSE g_slen
                 /\ pc' = "loop"
                 /\ CASE TypeIs("r") ->
                           /\ g_stack' = [stack EXCEPT ![depth] = ShiftLeft(g_stack[g_depth])]
                           /\ UNCHANGED <<g_powers, g_plen>>
                      [] TypeIs("l") \/ TypeIs("lor") ->
                           /\ g_stack' = [stack EXCEPT ![depth] = g_stack[g_depth]]
                           /\ UNCHANGED <<g_powers, g_plen>>
                      [] TypeIs("lar") ->
                           /\ g_stack' = [stack EXCEPT ![depth] =
                                            ShiftLeft(g_stack[g_depth]) + powers[pidx]]
                           /\ g_powers' = powers
                           /\ g_plen' = PlenAfter(g_plen, pidx)
            ELSE /\ pc' = "ret"
                 /\ UNCHANGED <<g_stack, g_slen, g_powers, g_plen>>
  /\ UNCHANGED <<cfgVars, auxVars, readVars, g_root, g_maxdepth, g_rlen, top, iroot, out, emitted, runs>>

\* the candidate is prime: write its value bytes and call the function again
Recurse(cur, lab) ==
  /\ out' = Written(out \o lab)
  /\ emitted' = Append(emitted, Node(cur, STACK_PREV, lab, g_depth))
  /\ pc' = "enter"
  /\ UNCHANGED frames

\* the candidate is not prime: next digit
NextDigit ==
  /\ frames' = [frames EXCEPT ![Len(frames)].d = @ + 1]
  /\ UNCHANGED <<out, emitted, pc>>

\* primes_r: one iteration of the digit loop
PrimesRStep ==
  /\ pc = "loop"
  /\ TypeIs("r")
  /\ Frame.d < g_base
  /\ LET cur == STACK_CURR + 1
     IN  /\ g_stack' = [g_stack EXCEPT ![g_depth] = cur]
         /\ IF IsPrime(cur) THEN Recurse(cur, LabelRL(Frame.d)) ELSE NextDigit
  /\ UNCHANGED <<cfgVars, auxVars, readVars, g_root, g_depth, g_maxdepth, g_rlen, g_slen, g_powers,
                 g_plen, top, iroot, runs>>
  /\ UNCHANGED statVars

\* primes_l: one iteration of the digit loop
PrimesLStep ==
  /\ pc = "loop"
  /\ TypeIs("l")
  /\ Frame.d < g_base
  /\ LET pidx == POWER_INDEX(g_rlen, g_depth)
         powers == get_power(g_powers, g_plen, pidx, g_base)
         cur == STACK_CURR + powers[pidx]
     IN  /\ g_powers' = powers
         /\ g_plen' = PlenAfter(g_plen, pidx)
         /\ g_stack' = [g_stack EXCEPT ![g_depth] = cur]
         /\ IF IsPrime(cur) THEN Recurse(cur, LabelRL(Frame.d)) ELSE NextDigit
  /\ UNCHANGED <<cfgVars, auxVars, readVars, g_root, g_depth, g_maxdepth, g_rlen, g_slen, top, iroot,
                 runs>>
  /\ UNCHANGED statVars

\* primes_lor: one iteration of the append-left loop
PrimesLorLeftStep ==
  /\ pc = "loop"
  /\ TypeIs("lor")
  /\ Frame.s = 0
  /\ Frame.d < g_base
  /\ LET pidx == POWER_INDEX(g_rlen, g_depth)
         powers == get_power(g_powers, g_plen, pidx, g_base)
         cur == STACK_CURR + powers[pidx]
     IN  /\ g_powers' = powers
         /\ g_plen' = PlenAfter(g_plen, pidx)
         /\ g_stack' = [g_stack EXCEPT ![g_depth] = cur]
         /\ IF IsPrime(cur) THEN Recurse(cur, LabelLor(0, Frame.d)) ELSE NextDigit
  /\ UNCHANGED <<cfgVars, auxVars, readVars, g_root, g_depth, g_maxdepth, g_rlen, g_slen, top, iroot,
                 runs>>
  /\ UNCHANGED statVars

\* the append-right loop going on from where the append-left loop stopped
LorRightStartCurr(prev, curr) == curr

\* primes_lor, append right: the loop starts from STACK_PREV, whatever the
\* append-left loop left in STACK_CURR
LorRightStart(prev, curr) == prev

\* primes_lor: the append-left loop is over, set up the append-right loop
PrimesLorSwitch ==
  /\ pc = "loop"
  /\ TypeIs("lor")
  /\ Frame.s = 0
  /\ Frame.d >= g_base
  /\ g_stack' = [g_stack EXCEPT ![g_depth] =
                    ShiftLeft(LorRightStart(STACK_PREV, STACK_CURR))]
  /\ frames' = [frames EXCEPT ![Len(frames)].s = 1, ![Len(frames)].d = 1]
  /\ UNCHANGED <<cfgVars, auxVars, readVars, g_root, g_depth, g_maxdepth, g_rlen, g_slen, g_powers,
                 g_plen, top, iroot, pc, out, emitted, runs>>
  /\ UNCHANGED statVars

\* primes_lor: one iteration of the append-right loop
PrimesLorRightStep ==
  /\ pc = "loop"
  /\ TypeIs("lor")
  /\ Frame.s = 1
  /\ Frame.d < g_base
  /\ LET cur == STACK_CURR + 1
     IN  /\ g_stack' = [g_stack EXCEPT ![g_depth] = cur]
         /\ IF IsPrime(cur) THEN Recurse(cur, LabelLor(1, Frame.d)) ELSE NextDigit
  /\ UNCHANGED <<cfgVars, auxVars, readVars, g_root, g_depth, g_maxdepth, g_rlen, g_slen, g_powers,
                 g_plen, top, iroot, runs>>
  /\ UNCHANGED statVars

\* primes_lar: one iteration of the right digit loop (s is dl, d is dr)
PrimesLarStep ==
  /\ pc = "loop"
  /\ TypeIs("lar")
  /\ Frame.s < g_base
  /\ Frame.d < g_base
  /\ LET cur == STACK_CURR + 1
     IN  /\ g_stack' = [g_stack EXCEPT ![g_depth] = cur]
         /\ IF IsPrime(cur) THEN Recurse(cur, LabelLar(Frame.s, Frame.d)) ELSE NextDigit
  /\ UNCHANGED <<cfgVars, auxVars, readVars, g_root, g_depth, g_maxdepth, g_rlen, g_slen, g_powers,
                 g_plen, top, iroot, runs>>
  /\ UNCHANGED statVars

\* the right digit increments left in place
LarBacktrackNone(curr) == curr

\* mpz_sub_ui(STACK_CURR,STACK_CURR,_g_base-1): backtrack right digit increment
LarBacktrack(curr) == curr - (g_base - 1)

\* primes_lar: the right digit loop is over: backtrack the right digit, and
\* increment the left digit if the left digit loop goes on
PrimesLarNextLeft ==
  /\ pc = "loop"
  /\ TypeIs("lar")
  /\ Frame.s < g_base
  /\ Frame.d >= g_base
  /\ LET back == LarBacktrack(STACK_CURR)
         pidx == LAR_POWER_INDEX(g_rlen, g_depth)
         powers == get_power(g_powers, g_plen, pidx, g_base)
     IN  IF Frame.s + 1 < g_base
         THEN /\ g_stack' = [g_stack EXCEPT ![g_depth] = back + powers[pidx]]
              /\ g_powers' = powers
              /\ g_plen' = PlenAfter(g_plen, pidx)
              /\ frames' = [frames EXCEPT ![Len(frames)].s = @ + 1,
                                          ![Len(frames)].d = 1]
         ELSE /\ g_stack' = [g_stack EXCEPT ![g_depth] = back]
              /\ frames' = [frames EXCEPT ![Len(frames)].s = @ + 1]
              /\ UNCHANGED <<g_powers, g_plen>>
  /\ UNCHANGED <<cfgVars, auxVars, readVars, g_root, g_depth, g_maxdepth, g_rlen, g_slen, top, iroot,
                 pc, out, emitted, runs>>
  /\ UNCHANGED statVars

\* the digit loops of the active call are over
LoopDone ==
  CASE TypeIs("r") \/ TypeIs("l") -> Frame.d >= g_base
    [] TypeIs("lor") -> Frame.s = 1 /\ Frame.d >= g_base
    [] TypeIs("lar") -> Frame.s >= g_base

\* the tail of the recursion functions: --_g_depth, the end byte, and the
\* caller going on after the call (++children and the next digit, or the next
\* root of the setup loop, or the end of the run)
Return ==
  /\ \/ pc = "ret"
     \/ pc = "loop" /\ LoopDone
  /\ g_depth' = g_depth - 1
  /\ LET nd == g_depth - 1
         cc == Frame.children
         val == g_stack[nd]
         st == IF WRITE_STATS
               THEN [counts |-> [g_counts EXCEPT ![nd][cc] = @ + 1],
                     pmin |-> update_min(g_pmin, nd, cc, val),
                     pmax |-> update_max(g_pmax, nd, cc, val),
                     counted |-> Append(counted, [v |-> val, lvl |-> nd, k |-> cc])]
               ELSE CurStats
         keep == /\ g_counts' = st.counts
                 /\ g_pmin' = st.pmin
                 /\ g_pmax' = st.pmax
                 /\ counted' = st.counted
                 /\ UNCHANGED <<stats_out, hash_out>>
         fold(h, d) == IF WRITE_STATS THEN HASH_UPDATE(h, d, Frame.hash) ELSE h
     IN  IF Len(frames) > 1
         THEN /\ out' = Written(WriteEnd(out))
              /\ frames' = [Front(frames) EXCEPT
                              ![Len(frames) - 1].children = @ + 1,
                              ![Len(frames) - 1].d = @ + 1,
                              ![Len(frames) - 1].hash =
                                 fold(@, PathNumber(frames[Len(frames) - 1]))]
              /\ pc' = "loop"
              /\ keep
              /\ UNCHANGED <<iroot, runs, hash>>
         ELSE /\ frames' = <<>>
              /\ CASE top = "root" ->
                        /\ Finish(Written(WriteEnd(out)), Frame.hash, st)
                        /\ UNCHANGED iroot
                   [] top = "roots1" ->
                        /\ out' = Written(WriteEnd(out))
                        /\ iroot' = [iroot EXCEPT !.r = @ + 1]
                        /\ hash' = fold(hash, iroot.r)
                        /\ pc' = "roots1"
                        /\ keep
                        /\ UNCHANGED runs
                   [] top = "roots2" ->
                        /\ out' = Written(WriteEnd(out))
                        /\ iroot' = NextRoot2(iroot)
                        /\ hash' = fold(hash, iroot.l * g_base + iroot.r)
                        /\ pc' = "roots2"
                        /\ keep
                        /\ UNCHANGED runs
  /\ UNCHANGED <<cfgVars, auxVars, readVars, g_root, g_maxdepth, g_rlen, g_stack, g_slen, g_powers,
                 g_plen, top, emitted>>

(* ------------------------- tree_convert (reader) ----------------------- *)
\* the bytes on the reader's standard input: the stream of the first run
Stream == runs[1].out

\* read_byte(): the next byte, -1 at EOF
read_byte(pos) == IF pos < Len(Stream) THEN Stream[pos + 1] ELSE -1

\* check_byte_between with the bounds allowed
check_byte_between_Inclusive(b, lo, hi) == ~(b < lo \/ b > hi)

\* check_byte_between(b, lo, hi) passes
check_byte_between(b, lo, hi) == ~(b <= lo \/ b >= hi)

R_CURR == r_stack[r_depth]
R_PREV == r_stack[r_depth - 1]
RFrame == r_frames[Len(r_frames)]

ReaderFail(msg) ==
  /\ r_pc' = "error"
  /\ r_err' = msg

\* tree_convert main(): the recursion is initialised from the root argument
\* and the root value (one or two bytes) is read and compared with 255
ReaderMain ==
  /\ r_pc = "idle"
  /\ WRITE_TREE
  /\ Len(runs) >= 1
  /\ r_stack' = [r_stack EXCEPT ![0] = arg_root]
  /\ r_rlen' = NumDigits(arg_root, g_base)
  /\ r_depth' = 0
  /\ IF read_byte(0) # END_BYTE
     THEN /\ ReaderFail("invalid root byte")
          /\ r_pos' = IF Len(Stream) > 0 THEN 1 ELSE 0
     ELSE IF TwoByte /\ read_byte(1) # END_BYTE
     THEN /\ ReaderFail("invalid root byte")
          /\ r_pos' = IF Len(Stream) > 1 THEN 2 ELSE 1
     ELSE /\ r_pc' = "call"
          /\ r_pos' = IF TwoByte THEN 2 ELSE 1
          /\ UNCHANGED r_err
  /\ UNCHANGED <<cfgVars, auxVars, enumVars, runs, r_slen, r_powers, r_plen, r_frames, r_out>>

\* entry of primes_r / primes_l / primes_lor / primes_lar / primes_lar_init:
\* the first byte is read; 255 returns at once, otherwise the frame is set up
ReaderCall ==
  /\ r_pc = "call"
  /\ LET b == read_byte(r_pos)
         init == TypeIs("lar") /\ r_frames = <<>> /\ r_rlen = 0
         depth == r_depth + 1
         stack == ensure_stack_space(r_stack, r_slen, depth)
     IN  IF b = -1
         THEN /\ ReaderFail("expected another byte")
              /\ UNCHANGED <<r_pos, r_depth, r_stack, r_slen, r_frames>>
         ELSE IF b = END_BYTE
         THEN /\ r_pc' = "after"
              /\ r_pos' = r_pos + 1
              /\ UNCHANGED <<r_err, r_depth, r_stack, r_slen, r_frames>>
         ELSE IF init
         THEN /\ r_pc' = "body"
              /\ r_pos' = r_pos + 1
              /\ r_frames' = Append(r_frames, [fn |-> "init", s |-> b, sprev |-> 0,
                                               d |-> 0, dprev |-> 0])
              /\ UNCHANGED <<r_err, r_depth, r_stack, r_slen>>
         ELSE /\ r_pc' = "body"
              /\ r_pos' = r_pos + 1
              /\ r_depth' = depth
              /\ r_slen' = IF depth >= r_slen THEN depth + 1 ELSE r_slen
              /\ r_stack' =
                   CASE TypeIs("r") \/ TypeIs("lar") ->
                          [stack EXCEPT ![depth] = r_stack[r_depth] * g_base]
                     [] TypeIs("l") -> [stack EXCEPT ![depth] = r_stack[r_depth]]
                     [] TypeIs("lor") -> stack
              /\ r_frames' =
                   Append(r_frames,
                     CASE TypeIs("r") \/ TypeIs("l") ->
                            [fn |-> "rec", s |-> 0, sprev |-> 0, d |-> b, dprev |-> 0]
                       [] TypeIs("lor") ->
                            [fn |-> "rec", s |-> b, sprev |-> -1, d |-> 0, dprev |-> 0]
                       [] TypeIs("lar") ->
                            [fn |-> "rec", s |-> b, sprev |-> 0, d |-> 0, dprev |-> 0])
              /\ UNCHANGED r_err
  /\ UNCHANGED <<cfgVars, auxVars, enumVars, runs, r_rlen, r_powers, r_plen, r_out>>

\* the number is written and the function calls itself
ReaderVisit(cur) ==
  /\ r_stack' = [r_stack EXCEPT ![r_depth] = cur]
  /\ r_out' = Append(r_out, cur)
  /\ r_pc' = "call"
  /\ UNCHANGED r_err

ReaderStop(msg) ==
  /\ ReaderFail(msg)
  /\ UNCHANGED <<r_stack, r_out>>

\* tree_convert primes_r: the loop body up to the recursive call
ReaderBodyR ==
  /\ r_pc = "body"
  /\ TypeIs("r")
  /\ IF check_byte_between(RFrame.d, RFrame.dprev, g_base)
     THEN ReaderVisit(ReaderAddR(R_CURR, RFrame.d, RFrame.dprev))
     ELSE ReaderStop("read byte out of bounds")
  /\ UNCHANGED <<cfgVars, auxVars, enumVars, runs, r_pos, r_depth, r_rlen, r_slen, r_powers,
                 r_plen, r_frames>>

\* tree_convert primes_l: the loop body up to the recursive call
ReaderBodyL ==
  /\ r_pc = "body"
  /\ TypeIs("l")
  /\ LET pidx == POWER_INDEX(r_rlen, r_depth)
         powers == get_power(r_powers, r_plen, pidx, g_base)
     IN  IF check_byte_between(RFrame.d, RFrame.dprev, g_base)
         THEN /\ ReaderVisit(R_CURR + powers[pidx] * (RFrame.d - RFrame.dprev))
              /\ r_powers' = powers
              /\ r_plen' = PlenAfter(r_plen, pidx)
         ELSE /\ ReaderStop("read byte out of bounds")
              /\ UNCHANGED <<r_powers, r_plen>>
  /\ UNCHANGED <<cfgVars, auxVars, enumVars, runs, r_pos, r_depth, r_rlen, r_slen, r_frames>>

\* tree_convert primes_lor: the loop body up to the recursive call
ReaderBodyLor ==
  /\ r_pc = "body"
  /\ TypeIs("lor")
  /\ LET f == RFrame
         d == read_byte(r_pos)
         switch == f.s # f.sprev
         dprev == IF switch THEN 0 ELSE f.dprev
         pidx == POWER_INDEX(r_rlen, r_depth)
         powers == get_power(r_powers, r_plen, pidx, g_base)
         startl == IF switch THEN R_PREV ELSE R_CURR
         startr == IF switch THEN R_PREV * g_base ELSE R_CURR
     IN  IF ~check_byte_between(f.s, -1, 2)
         THEN /\ ReaderStop("read byte out of bounds")
              /\ UNCHANGED <<r_pos, r_frames, r_powers, r_plen>>
         ELSE IF d = -1
         THEN /\ ReaderStop("expected another byte")
              /\ UNCHANGED <<r_pos, r_frames, r_powers, r_plen>>
         ELSE IF ~check_byte_between(d, dprev, g_base)
         THEN /\ ReaderStop("read byte out of bounds")
              /\ r_pos' = r_pos + 1
              /\ UNCHANGED <<r_frames, r_powers, r_plen>>
         ELSE /\ r_pos' = r_pos + 1
              /\ r_frames' = [r_frames EXCEPT ![Len(r_frames)].d = d,
                                              ![Len(r_frames)].dprev = dprev]
              /\ IF f.s = 0
                 THEN /\ ReaderVisit(startl + powers[pidx] * (d - dprev))
                      /\ r_powers' = powers
                      /\ r_plen' = PlenAfter(r_plen, pidx)
                 ELSE /\ ReaderVisit(ReaderAddR(startr, d, dprev))
                      /\ UNCHANGED <<r_powers, r_plen>>
  /\ UNCHANGED <<cfgVars, auxVars, enumVars, runs, r_depth, r_rlen, r_slen>>

\* tree_convert primes_lar: the loop body up to the recursive call
\* (s is ld, sprev is ldprev, d is rd, dprev is rdprev)
ReaderBodyLar ==
  /\ r_pc = "body"
  /\ TypeIs("lar")
  /\ RFrame.fn = "rec"
  /\ LET f == RFrame
         rd == read_byte(r_pos)
         pidx == LAR_POWER_INDEX(r_rlen, r_depth)
         powers == get_power(r_powers, r_plen, pidx, g_base)
     IN  IF rd = -1
         THEN /\ ReaderStop("expected another byte")
              /\ UNCHANGED <<r_pos, r_frames, r_powers, r_plen>>
         ELSE IF ~check_byte_between(f.s, 0, g_base)
         THEN /\ ReaderStop("read byte out of bounds")
              /\ r_pos' = r_pos + 1
              /\ UNCHANGED <<r_frames, r_powers, r_plen>>
         ELSE IF f.s = f.sprev
         THEN IF check_byte_between(rd, f.dprev, g_base)
              THEN /\ ReaderVisit(ReaderAddR(R_CURR, rd, f.dprev))
                   /\ r_pos' = r_pos + 1
                   /\ r_frames' = [r_frames EXCEPT ![Len(r_frames)].d = rd]
                   /\ UNCHANGED <<r_powers, r_plen>>
              ELSE /\ ReaderStop("read byte out of bounds")
                   /\ r_pos' = r_pos + 1
                   /\ UNCHANGED <<r_frames, r_powers, r_plen>>
         ELSE IF check_byte_between(f.s, f.sprev, g_base)
                 /\ check_byte_between(rd, 0, g_base)
              THEN /\ ReaderVisit(R_CURR - f.dprev
                                    + powers[pidx] * (f.s - f.sprev) + rd)
                   /\ r_pos' = r_pos + 1
                   /\ r_frames' = [r_frames EXCEPT ![Len(r_frames)].d = rd,
                                                   ![Len(r_frames)].dprev = 0]
                   /\ r_powers' = powers
                   /\ r_plen' = PlenAfter(r_plen, pidx)
              ELSE /\ ReaderStop("read byte out of bounds")
                   /\ r_pos' = r_pos + 1
                   /\ UNCHANGED <<r_frames, r_powers, r_plen>>
  /\ UNCHANGED <<cfgVars, auxVars, enumVars, runs, r_depth, r_rlen, r_slen>>

\* tree_convert primes_lar_init with root 0: the loop body over the 1 and 2
\* digit roots up to the call of primes_lar (dprev is rootprev)
ReaderBodyLarInit ==
  /\ r_pc = "body"
  /\ TypeIs("lar")
  /\ RFrame.fn = "init"
  /\ LET f == RFrame
         rd == read_byte(r_pos)
         root == f.s * g_base + rd
     IN  IF rd = -1
         THEN /\ ReaderFail("expected another byte")
              /\ UNCHANGED <<r_pos, r_frames, r_stack, r_out, r_rlen, r_depth>>
         ELSE IF check_byte_between(f.s, -1, g_base)
                 /\ check_byte_between(rd, -1, g_base)
                 /\ check_byte_between(root, f.dprev, g_base * g_base)
         THEN /\ r_stack' = [r_stack EXCEPT ![0] = root]
              /\ r_rlen' = 1 + (IF f.s # 0 THEN 1 ELSE 0)
              /\ r_depth' = 0
              /\ r_out' = Append(r_out, root)
              /\ r_pos' = r_pos + 1
              /\ r_frames' = [r_frames EXCEPT ![Len(r_frames)].d = rd]
              /\ r_pc' = "call"
              /\ UNCHANGED r_err
         ELSE /\ ReaderFail("read byte out of bounds")
              /\ r_pos' = r_pos + 1
              /\ UNCHANGED <<r_frames, r_stack, r_out, r_rlen, r_depth>>
  /\ UNCHANGED <<cfgVars, auxVars, enumVars, runs, r_slen, r_powers, r_plen>>

\* a call has returned: the caller remembers the previous value bytes and
\* reads the first byte of the next one; 255 ends its loop and it returns too
ReaderAfter ==
  /\ r_pc = "after"
  /\ r_frames # <<>>
  /\ LET f == RFrame
         b == read_byte(r_pos)
         n == Len(r_frames)
     IN  IF b = -1
         THEN /\ ReaderFail("expected another byte")
              /\ UNCHANGED <<r_pos, r_frames, r_depth>>
         ELSE IF b = END_BYTE
         THEN /\ r_frames' = Front(r_frames)
              /\ r_depth' = IF f.fn = "rec" THEN r_depth - 1 ELSE r_depth
              /\ r_pos' = r_pos + 1
              /\ UNCHANGED <<r_pc, r_err>>
         ELSE /\ r_pos' = r_pos + 1
              /\ r_pc' = "body"
              /\ r_frames' =
                   CASE f.fn = "init" ->
                          [r_frames EXCEPT ![n].dprev = f.s * g_base + f.d, ![n].s = b]
                     [] f.fn = "rec" /\ (TypeIs("r") \/ TypeIs("l")) ->
                          [r_frames EXCEPT ![n].dprev = f.d, ![n].d = b]
                     [] f.fn = "rec" /\ (TypeIs("lor") \/ TypeIs("lar")) ->
                          [r_frames EXCEPT ![n].dprev = f.d, ![n].sprev = f.s,
                                           ![n].s = b]
              /\ UNCHANGED <<r_depth, r_err>>
  /\ UNCHANGED <<cfgVars, auxVars, enumVars, runs, r_rlen, r_stack, r_slen, r_powers, r_plen,
                 r_out>>

\* tree_convert main() after the tree: the input must be at EOF
ReaderFinish ==
  /\ r_pc = "after"
  /\ r_frames = <<>>
  /\ IF read_byte(r_pos) # -1
     THEN /\ ReaderFail("extra bytes found at end")
          /\ r_pos' = r_pos + 1
     ELSE /\ r_pc' = "done"
          /\ UNCHANGED <<r_pos, r_err>>
  /\ UNCHANGED <<cfgVars, auxVars, enumVars, runs, r_depth, r_rlen, r_stack, r_slen, r_powers,
                 r_plen, r_frames, r_out>>

ReadNext ==
  \/ ReaderMain
  \/ ReaderCall
  \/ ReaderBodyR
  \/ ReaderBodyL
  \/ ReaderBodyLor
  \/ ReaderBodyLar
  \/ ReaderBodyLarInit
  \/ ReaderAfter
  \/ ReaderFinish

(* ----------------------- partitioned computation ----------------------- *)
\* the roots of the initial expansion of the first (full-tree) run, in order
PartitionRoots == SelectSeq(runs[1].emitted, LAMBDA e : e.lvl = 0)

\* a further process is started with the next root of the initial expansion
\* as its explicit root: main() with -r, globals as init_globals() leaves them
StartRun ==
  /\ pc = "exit"
  /\ r_pc \in {"done", "error"} \/ WRITE_STATS
  /\ arg_root = 0
  /\ Len(runs) <= Len(PartitionRoots)
  /\ g_root' = PartitionRoots[Len(runs)].v
  /\ g_depth' = 0
  /\ g_maxdepth' = U32(0)
  /\ g_rlen' = 0
  /\ g_stack' = [j \in 0..0 |-> 0]
  /\ g_slen' = 1
  /\ g_powers' = [j \in 0..0 |-> 1]
  /\ g_plen' = 1
  /\ frames' = <<>>
  /\ top' = "none"
  /\ iroot' = [l |-> 0, r |-> 0]
  /\ pc' = "main"
  /\ out' = <<>>
  /\ emitted' = <<>>
  /\ g_counts' = InitStats
  /\ g_pmin' = InitStats
  /\ g_pmax' = InitStats
  /\ hash' = U64Zero
  /\ stats_out' = <<>>
  /\ hash_out' = <<>>
  /\ counted' = <<>>
  /\ UNCHANGED <<cfgVars, auxVars, readVars, runs>>

EnumNext ==
  \/ Main
  \/ Roots1Step
  \/ Roots1Done
  \/ Roots2Step
  \/ Roots2Done
  \/ Enter
  \/ PrimesRStep
  \/ PrimesLStep
  \/ PrimesLorLeftStep
  \/ PrimesLorSwitch
  \/ PrimesLorRightStep
  \/ PrimesLarStep
  \/ PrimesLarNextLeft
  \/ Return

Next == EnumNext \/ ReadNext \/ StartRun

Spec == Init /\ [][Next]_vars

(* ------------------- the hashing function on its own -------------------- *)
\* The hash of a node is a function of its value, of the path numbers of its
\* children and of their hashes alone. Here it is applied, with the macros of
\* the recursion functions, to a node whose children are leaves, for values
\* of more than 64 bits and for two labellings of the same tree at once.
HashLimbs == 5     \* 16 bit parts of the values hashed on their own
MaxKids == 2       \* children of the node hashed on its own

LimbChoice == {0, 1, 32768, 65535}
HashLabels == {1, 2, 128}
KidValues == {<<0, 3>>, <<1, 0, 0, 0, 7>>}
RootValues == {<<0, 2>>, <<65535, 65535, 65535, 65535>>}

\* a single node of any of the bounded values
SingleNodes == {[value |-> v, kids |-> <<>>] : v \in [1..HashLimbs -> LimbChoice]}

\* a child: its path number d, its path number e in the second labelling, and
\* its value
Kids == [d : HashLabels, e : HashLabels, value : KidValues]

\* nodes with leaves as children whose two labellings differ in the path
\* number of exactly one child
LabelledNodes ==
  UNION {{[value |-> v, kids |-> ks] :
            v \in RootValues,
            ks \in {q \in [1..n -> Kids] :
                      Cardinality({i \in 1..n : q[i].d # q[i].e}) = 1}} :
         n \in 1..MaxKids}

\* one more node of two children, the path number of the first one being 1
\* in the first labelling and 128 in the second
PickedNode ==
  [value |-> <<58304, 16387, 42528, 21691>>,
   kids |-> <<[d |-> 1, e |-> 128, value |-> <<48973, 7848, 10497, 51271>>],
              [d |-> 2, e |-> 2, value |-> <<35688, 15730, 24637, 12893>>]>>]

HashInputs == SingleNodes \cup LabelledNodes \cup {PickedNode}

HashInit ==
  /\ ProgOff
  /\ PredOff
  /\ GenOff
  /\ h_in \in HashInputs
  /\ h_acc = HashIdle

\* tp_hash_t hash = HASH_INIT: the seed from the value of the node
HashSeed ==
  /\ h_acc.pos = -1
  /\ h_acc' = [pos |-> 0, h |-> HASH_INIT(h_in.value), g |-> HASH_INIT(h_in.value)]
  /\ UNCHANGED <<progVars, predVars, genVars, h_in>>

\* hash = HASH_UPDATE(hash,d,child_hash) for the next child, a leaf, whose
\* hash is its seed; in both labellings
HashChild ==
  /\ h_acc.pos >= 0
  /\ h_acc.pos < Len(h_in.kids)
  /\ LET kid == h_in.kids[h_acc.pos + 1]
         child_hash == HASH_INIT(kid.value)
     IN  h_acc' = [pos |-> h_acc.pos + 1,
                   h |-> HASH_UPDATE(h_acc.h, kid.d, child_hash),
                   g |-> HASH_UPDATE(h_acc.g, kid.e, child_hash)]
  /\ UNCHANGED <<progVars, predVars, genVars, h_in>>

HashNext == HashSeed \/ HashChild

HashSpec == HashInit /\ [][HashNext]_vars

(* -------------- the prime type checker functions (tp_util.c) ------------ *)
PredMaxBase == 10    \* bases 2..PredMaxBase
PredMaxVal == 260    \* arguments a up to PredMaxVal
PredMaxNeg == 14     \* and down to -PredMaxNeg

\* PRIME_TEST(n) on an mpz_t of either sign: mpz_probab_prime_p(n,0) tests
\* the absolute value
PRIME_TEST(n) == IsPrime(IF n < 0 THEN 0 - n ELSE n)

RECURSIVE r_loop(_, _)
\* while (n > 0): the test of n, mpz_div_ui(n,n,b) in the condition (n
\* becomes its quotient, the remainder is returned and compared with 0) and
\* mpz_div_ui(n,n,b) once more in the body
r_loop(n, b) ==
  IF n > 0
  THEN IF ~PRIME_TEST(n) \/ n % b = 0
       THEN FALSE
       ELSE r_loop((n \div b) \div b, b)
  ELSE TRUE

\* bool is_r_truncprime(const mpz_t a, uint32_t b)
is_r_truncprime(a, b) == IF a <= 0 THEN FALSE ELSE r_loop(a, b)

RECURSIVE l_loop(_, _, _)
\* while (n > 0): the test of n and of its left digit n / p, then the digit
\* taken off and p /= b
l_loop(n, p, b) ==
  IF n > 0
  THEN IF ~PRIME_TEST(n) \/ n \div p = 0
       THEN FALSE
       ELSE l_loop(n - p * (n \div p), p \div b, b)
  ELSE TRUE

\* bool is_l_truncprime(const mpz_t a, uint32_t b)
is_l_truncprime(a, b) ==
  IF a <= 0 THEN FALSE ELSE l_loop(a, Pow(b, NumDigits(a, b) - 1), b)

RECURSIVE HasZeroDigit(_, _)
\* the digit counting loop of is_lor_truncprime: a digit 0 returns false
HasZeroDigit(n, b) ==
  IF n > 0 THEN n % b = 0 \/ HasZeroDigit(n \div b, b) ELSE FALSE

RECURSIVE is_lor_truncprime(_, _), lor_loop(_, _, _)
\* for (;;): tr is prime and p the value of its left digit
lor_loop(tr, p, b) ==
  IF tr < b THEN TRUE
  ELSE LET d == tr \div p
           tl == tr - p * d
           tr2 == tr \div b
           trp == PRIME_TEST(tr2)
           tlp == PRIME_TEST(tl)
       IN  IF trp
           THEN IF tlp
                THEN is_lor_truncprime(tr2, b) \/ is_lor_truncprime(tl, b)
                ELSE lor_loop(tr2, p \div b, b)
           ELSE IF tlp
                THEN lor_loop(tl, p \div b, b)
                ELSE FALSE

\* bool is_lor_truncprime(const mpz_t a, uint32_t b)
is_lor_truncprime(a, b) ==
  IF a < b THEN PRIME_TEST(a)
  ELSE IF ~PRIME_TEST(a) THEN FALSE
  ELSE IF HasZeroDigit(a, b) THEN FALSE
  ELSE lor_loop(a, Pow(b, NumDigits(a, b) - 1), b)

RECURSIVE lar_loop(_, _, _)
\* while (n > 0): the test of n and of its left digit, then the left and the
\* right digit taken off and p /= b*b
lar_loop(n, p, b) ==
  IF n > 0
  THEN IF ~PRIME_TEST(n) \/ n \div p = 0
       THEN FALSE
       ELSE lar_loop((n - p * (n \div p)) \div b, p \div (b * b), b)
  ELSE TRUE

\* bool is_lar_truncprime(const mpz_t a, uint32_t b)
is_lar_truncprime(a, b) ==
  IF a <= 0 THEN FALSE ELSE lar_loop(a, Pow(b, NumDigits(a, b) - 1), b)

PredInputs == [a : (0 - PredMaxNeg)..PredMaxVal, b : 2..PredMaxBase]

PredInit ==
  /\ ProgOff
  /\ HashOff
  /\ GenOff
  /\ p_in \in PredInputs
  /\ p_out = NoCall

\* a call of is_r_truncprime on the arguments
CallR ==
  /\ p_out = NoCall
  /\ p_out' = [fn |-> "r", ret |-> is_r_truncprime(p_in.a, p_in.b)]
  /\ UNCHANGED <<progVars, hashVars, genVars, p_in>>

\* a call of is_l_truncprime on the arguments
CallL ==
  /\ p_out = NoCall
  /\ p_out' = [fn |-> "l", ret |-> is_l_truncprime(p_in.a, p_in.b)]
  /\ UNCHANGED <<progVars, hashVars, genVars, p_in>>

\* a call of is_lor_truncprime on the arguments
CallLor ==
  /\ p_out = NoCall
  /\ p_out' = [fn |-> "lor", ret |-> is_lor_truncprime(p_in.a, p_in.b)]
  /\ UNCHANGED <<progVars, hashVars, genVars, p_in>>

\* a call of is_lar_truncprime on the arguments
CallLar ==
  /\ p_out = NoCall
  /\ p_out' = [fn |-> "lar", ret |-> is_lar_truncprime(p_in.a, p_in.b)]
  /\ UNCHANGED <<progVars, hashVars, genVars, p_in>>

PredNext == CallR \/ CallL \/ CallLor \/ CallLar

PredSpec == PredInit /\ [][PredNext]_vars

(* ------------------ the generator TP_next_* (tp_util.c) ----------------- *)
\* truncprimes2.c walks the tree of one root with a generator: TP_init makes
\* its state and every call of TP_next returns the next byte sequence of the
\* stream. A call is followed through the iterations of its loop.
GenMaxBase == 3       \* bases 2..GenMaxBase
GenMaxRoot == 5       \* roots 1..GenMaxRoot
GenMaxLen == 2        \* length limits 1..GenMaxLen, and no limit
GenMaxDepth == 5      \* frames are not entered deeper than this
GenMaxEndCalls == 2   \* calls followed after the end of the generator

TP_BYTES_ONLY == 0
TP_PRE_ORDER == 1
TP_POST_ORDER == 2

\* (uint32_t)-1, as two 16 bit halves
UINT32_MAX == <<LIMB - 1, LIMB - 1>>

\* a stack frame as TP_resize_stack initialises it
NewFrame == [n |-> 0, i |-> 0, c |-> 0, v |-> <<0, 0>>]

\* TP_init: the state with the root in frame 0 and the root bytes in frame 1
TP_init(base, root, maxlen, rootv, mode) ==
  [base |-> base, root |-> root, rlen |-> NumDigits(root, base),
   maxlen |-> maxlen, mode |-> mode,
   pow |-> [j \in 0..0 |-> 1], plen |-> 1,
   depth |-> 1,
   stack |-> [j \in 0..1 |-> IF j = 0 THEN [NewFrame EXCEPT !.n = root]
                             ELSE [NewFrame EXCEPT !.v = rootv]],
   slen |-> 2]

TP_resize_stack(stack, slen, len) ==
  [j \in 0..(len - 1) |-> IF j < slen THEN stack[j] ELSE NewFrame]

RECURSIVE TP_resize_powers(_, _, _, _)
\* TP_resize_powers: the entries plen..len-1 are appended
TP_resize_powers(pow, plen, len, base) ==
  IF plen < len
  THEN TP_resize_powers(pow @@ (plen :> pow[plen - 1] * base), plen + 1, len, base)
  ELSE pow

\* set_value with is_set taken as true
set_value_Always(is_set, value, len, num, children, path) ==
  [len |-> len, num |-> num, children |-> children, path |-> path]

\* set_value: the value is set, or its len alone is zeroed; num is a pointer
\* to the number of a stack frame, kept as the index of the frame
set_value(is_set, value, len, num, children, path) ==
  IF is_set
  THEN [len |-> len, num |-> num, children |-> children, path |-> path]
  ELSE [value EXCEPT !.len = 0]

S_BASE == tp_state.base
S_CURR == tp_state.stack[tp_state.depth]
S_PREV == tp_state.stack[tp_state.depth - 1]
IsLar == TP_next = "lar"

\* the end of the generator one frame early
EndOfGeneratorEarly(st) == st.depth <= 1

\* if (state->depth == 0) return 0;
EndOfGenerator(st) == st.depth = 0

\* the length test of the loop: the children of the node would be too long
LimitReached ==
  IF IsLar THEN U32Lt(tp_state.maxlen, U32(tp_state.rlen + 2 * tp_state.depth))
  ELSE U32Lt(tp_state.maxlen, U32(tp_state.rlen + tp_state.depth))

\* the value of S_CURR.i at which the frame is left
LastAppend ==
  CASE TP_next \in {"r", "l"} -> S_BASE
    [] TP_next = "lor" -> 2 * S_BASE
    [] TP_next = "lar" -> S_BASE * S_BASE

\* the third argument of set_value: the digits of the node of the frame
NodeLen ==
  IF IsLar THEN tp_state.rlen + 2 * (tp_state.depth - 1)
  ELSE tp_state.rlen + tp_state.depth - 1

\* the last argument of set_value: S_PREV.i-1 as uint32_t
NodePath == IF S_PREV.i = 0 THEN UINT32_MAX ELSE U32(S_PREV.i - 1)

\* the number value.num points to, 0 while it has never been set
Deref(st, val) == IF val.num \in DOMAIN st.stack THEN st.stack[val.num].n ELSE 0

\* what a call has returned, with the state and the value it leaves
Yielded(rv, kind, st, val, bytes) ==
  [rv |-> rv, kind |-> kind, bytes |-> SubSeq(bytes, 1, rv), depth |-> st.depth,
   len |-> val.len, num |-> Deref(st, val), children |-> val.children]

\* the candidates followed are those the oracle is exact for
InOracleRange(n) == n < SieveLimit * SieveLimit

\* the values a variable nobody has written may hold
Indeterminate == {0, END_BYTE}

\* the root bytes main() passes for a root of its loop
LoopRootBytes(fn, base, r) ==
  CASE fn = "lor" -> {<<0, r>>}
    [] fn = "lar" -> {<<r \div base, r % base>>}
    [] OTHER -> {<<r, x>> : x \in Indeterminate}

\* the calls of process_root in main(): the roots of the loop with their
\* bytes, and an explicit root with the bytes 255 255
RootBytes(fn, base, r) ==
  {<<END_BYTE, END_BYTE>>} \cup
  (IF r < (IF fn = "lar" THEN base * base ELSE base) /\ PRIME_TEST(r)
   THEN LoopRootBytes(fn, base, r) ELSE {})

GenInputs ==
  UNION {[fn : {fn}, base : {base}, root : {r},
          maxlen : {U32(l) : l \in 1..GenMaxLen} \cup {UINT32_MAX},
          mode : {TP_BYTES_ONLY, TP_PRE_ORDER, TP_POST_ORDER},
          rootv : RootBytes(fn, base, r)] :
           fn \in PrimeTypes, base \in 2..GenMaxBase, r \in 1..GenMaxRoot}

GenInit ==
  /\ ProgOff
  /\ HashOff
  /\ PredOff
  /\ \E c \in GenInputs :
       /\ TP_next = c.fn
       /\ tp_state = TP_init(c.base, c.root, c.maxlen, c.rootv, c.mode)
  /\ tp_value \in [len : {0, LIMB}, num : {0 - 1}, children : {U32(0)}, path : {U32(0)}]
  /\ tp_ret = <<0, 0>>
  /\ tp_pc = "idle"
  /\ tp_out = <<>>
  /\ tp_pair = <<>>
  /\ tp_r = 0
  /\ sp = [pc |-> "off"]

GenRest == <<progVars, hashVars, predVars, TP_next, tp_pair, tp_r, sp>>

\* a call on a generator that has ended returns 0
TPEnded ==
  /\ tp_pc = "idle"
  /\ EndOfGenerator(tp_state)
  /\ Cardinality({k \in 1..Len(tp_out) : tp_out[k].rv = 0}) < GenMaxEndCalls
  /\ tp_out' = Append(tp_out, Yielded(0, "none", tp_state, tp_value, tp_ret))
  /\ UNCHANGED <<GenRest, tp_state, tp_value, tp_ret, tp_pc>>

\* any other call enters the loop
TPCall ==
  /\ tp_pc = "idle"
  /\ ~EndOfGenerator(tp_state)
  /\ tp_pc' = "loop"
  /\ UNCHANGED <<GenRest, tp_state, tp_value, tp_ret, tp_out>>

\* if (S_CURR.i == 0): yield root
TPYieldRoot ==
  /\ tp_pc = "loop"
  /\ S_CURR.i = 0
  /\ LET d == tp_state.depth
         rv == IF TP_next \in {"r", "l"} THEN 1 ELSE 2
         st == [tp_state EXCEPT !.stack[d].i = IF IsLar THEN S_BASE ELSE 1]
         val == set_value(tp_state.mode = TP_PRE_ORDER, tp_value, NodeLen, d - 1,
                          UINT32_MAX, NodePath)
         bytes == IF rv = 1 THEN [tp_ret EXCEPT ![1] = S_CURR.v[1]] ELSE S_CURR.v
     IN  /\ tp_state' = st
         /\ tp_value' = val
         /\ tp_ret' = bytes
         /\ tp_out' = Append(tp_out, Yielded(rv, "label", st, val, bytes))
  /\ tp_pc' = "idle"
  /\ UNCHANGED GenRest

\* else if (state->rlen + state->depth > state->maxlen): skip deeper recursion
TPSkip ==
  /\ tp_pc = "loop"
  /\ S_CURR.i # 0
  /\ LimitReached
  /\ tp_state' = [tp_state EXCEPT
                    !.stack[tp_state.depth].i = IF IsLar THEN S_BASE * S_BASE ELSE S_BASE]
  /\ UNCHANGED <<GenRest, tp_value, tp_ret, tp_pc, tp_out>>

\* the bytes of the frame above the current one, if it has been used before
NextV(st) ==
  IF st.depth + 1 < st.slen THEN st.stack[st.depth + 1].v ELSE NewFrame.v

\* the candidate is prime: ++S_CURR.c, enter a new stack frame with the bytes
\* of the append
TP_push(st, v) ==
  LET d == st.depth + 1
      counted1 == [st.stack EXCEPT ![st.depth].c = @ + 1]
      stack == IF d >= st.slen THEN TP_resize_stack(counted1, st.slen, d + 1)
               ELSE counted1
  IN  [st EXCEPT !.depth = d,
                 !.slen = IF d >= st.slen THEN d + 1 ELSE @,
                 !.stack = [stack EXCEPT ![d].v = v, ![d].i = 0, ![d].c = 0]]

\* the candidate cand is put in the current frame and tested; v are the bytes
\* of the append
TPTest(st, cand, v) ==
  /\ InOracleRange(cand)
  /\ LET tried == [st EXCEPT !.stack[st.depth].n = cand, !.stack[st.depth].i = @ + 1]
     IN  IF PRIME_TEST(cand)
         THEN st.depth < GenMaxDepth /\ tp_state' = TP_push(tried, v)
         ELSE tp_state' = tried
  /\ UNCHANGED <<GenRest, tp_value, tp_ret, tp_pc, tp_out>>

\* the powers grown for the index the left appends use
WithPowers(st, len) ==
  IF len > st.plen
  THEN [st EXCEPT !.pow = TP_resize_powers(st.pow, st.plen, len, st.base), !.plen = len]
  ELSE st

\* TP_next_r: digit append loop
TPAppendR ==
  /\ tp_pc = "loop"
  /\ TP_next = "r"
  /\ S_CURR.i # 0 /\ ~LimitReached /\ S_CURR.i < S_BASE
  /\ LET n == IF S_CURR.i = 1 THEN S_PREV.n * S_BASE ELSE S_CURR.n
     IN  TPTest(tp_state, n + 1, <<S_CURR.i, NextV(tp_state)[2]>>)

\* TP_next_l: digit append loop
TPAppendL ==
  /\ tp_pc = "loop"
  /\ TP_next = "l"
  /\ S_CURR.i # 0 /\ ~LimitReached /\ S_CURR.i < S_BASE
  /\ LET n == IF S_CURR.i = 1 THEN S_PREV.n ELSE S_CURR.n
         len == tp_state.rlen + tp_state.depth
         st == WithPowers(tp_state, len)
     IN  TPTest(st, n + st.pow[len - 1], <<S_CURR.i, NextV(tp_state)[2]>>)

\* TP_next_lor: append left
TPAppendLorLeft ==
  /\ tp_pc = "loop"
  /\ TP_next = "lor"
  /\ S_CURR.i # 0 /\ ~LimitReached /\ S_CURR.i < S_BASE
  /\ LET n == IF S_CURR.i = 1 THEN S_PREV.n ELSE S_CURR.n
         len == tp_state.rlen + tp_state.depth
         st == WithPowers(tp_state, len)
     IN  TPTest(st, n + st.pow[len - 1], <<0, S_CURR.i>>)

\* TP_next_lor: switch to append right
TPLorSwitch ==
  /\ tp_pc = "loop"
  /\ TP_next = "lor"
  /\ ~LimitReached /\ S_CURR.i = S_BASE
  /\ tp_state' = [tp_state EXCEPT !.stack[tp_state.depth].n = S_PREV.n * S_BASE,
                                  !.stack[tp_state.depth].i = @ + 1]
  /\ UNCHANGED <<GenRest, tp_value, tp_ret, tp_pc, tp_out>>

\* TP_next_lor: append right
TPAppendLorRight ==
  /\ tp_pc = "loop"
  /\ TP_next = "lor"
  /\ ~LimitReached /\ S_CURR.i > S_BASE /\ S_CURR.i < 2 * S_BASE
  /\ TPTest(tp_state, S_CURR.n + 1, <<1, S_CURR.i - S_BASE>>)

\* TP_next_lar: increment left digit
TPLarLeft ==
  /\ tp_pc = "loop"
  /\ IsLar
  /\ S_CURR.i # 0 /\ ~LimitReached /\ S_CURR.i < S_BASE * S_BASE
  /\ S_CURR.i % S_BASE = 0
  /\ LET n == IF S_CURR.i = S_BASE THEN S_PREV.n * S_BASE
              ELSE S_CURR.n - (S_BASE - 1)
         len == tp_state.rlen + 2 * tp_state.depth
         st == WithPowers(tp_state, len)
     IN  tp_state' = [st EXCEPT !.stack[st.depth].n = n + st.pow[len - 1],
                                !.stack[st.depth].i = @ + 1]
  /\ UNCHANGED <<GenRest, tp_value, tp_ret, tp_pc, tp_out>>

\* TP_next_lar: increment right digit, test primality
TPLarRight ==
  /\ tp_pc = "loop"
  /\ IsLar
  /\ S_CURR.i # 0 /\ ~LimitReached /\ S_CURR.i < S_BASE * S_BASE
  /\ S_CURR.i % S_BASE # 0
  /\ TPTest(tp_state, S_CURR.n + 1, <<S_CURR.i \div S_BASE, S_CURR.i % S_BASE>>)

\* else: yield end
TPYieldEnd ==
  /\ tp_pc = "loop"
  /\ S_CURR.i # 0 /\ ~LimitReached /\ S_CURR.i >= LastAppend
  /\ LET d == tp_state.depth
         val == set_value(tp_state.mode = TP_POST_ORDER, tp_value, NodeLen, d - 1,
                          U32(S_CURR.c), NodePath)
         st == [tp_state EXCEPT !.depth = d - 1]
         bytes == [tp_ret EXCEPT ![1] = END_BYTE]
     IN  /\ tp_state' = st
         /\ tp_value' = val
         /\ tp_ret' = bytes
         /\ tp_out' = Append(tp_out, Yielded(1, "end", st, val, bytes))
  /\ tp_pc' = "idle"
  /\ UNCHANGED GenRest

GenNext ==
  \/ TPEnded \/ TPCall \/ TPYieldRoot \/ TPSkip
  \/ TPAppendR \/ TPAppendL
  \/ TPAppendLorLeft \/ TPLorSwitch \/ TPAppendLorRight
  \/ TPLarLeft \/ TPLarRight
  \/ TPYieldEnd

GenSpec == GenInit /\ [][GenNext]_vars

(* ------------------------------ properties ----------------------------- *)
Vals(e) == [i \in 1..Len(e) |-> e[i].v]
ValSet(e) == {e[i].v : i \in 1..Len(e)}
IsPrefix(a, b) == Len(a) <= Len(b) /\ SubSeq(b, 1, Len(a)) = a
MainRun == variant = "truncprimes"
MaxLengthArg == g_maxlength[1] * LIMB + g_maxlength[2]

\* C1: round trip. The reader, run on the stream of a RIGHT-mode full-tree
\* run with root 0, never stops with an error, what it has written so far is
\* always a prefix of the values the enumerator recursed into, and when it
\* is done it has written exactly that sequence (same order, each once).
C1_RoundTrip ==
  (MainRun /\ TypeIs("r") /\ arg_root = 0 /\ Len(runs) >= 1) =>
    /\ r_pc # "error"
    /\ IsPrefix(r_out, Vals(runs[1].emitted))
    /\ r_pc = "done" => r_out = Vals(runs[1].emitted)

C1_Witness ==
  /\ MainRun /\ TypeIs("r") /\ arg_root = 0
  /\ r_pc = "done"
  /\ Len(r_out) >= 6
  /\ \E i \in 1..Len(runs[1].emitted) : runs[1].emitted[i].lvl >= 2

ValueLen == IF TwoByte THEN 2 ELSE 1

RECURSIVE read_tree(_, _), read_subtrees(_, _)
\* read_tree of the format description: the position after the tree that
\* starts at pos, or -1 if the bytes end before the tree does
read_tree(bytes, pos) ==
  IF pos + ValueLen > Len(bytes) THEN -1
  ELSE read_subtrees(bytes, pos + ValueLen)
read_subtrees(bytes, pos) ==
  IF pos >= Len(bytes) THEN -1
  ELSE IF bytes[pos + 1] = END_BYTE THEN pos + 1
  ELSE LET q == read_tree(bytes, pos)
       IN  IF q = -1 THEN -1 ELSE read_subtrees(bytes, q)

RECURSIVE EndsFrom(_, _), ValuesFrom(_, _)
\* the end bytes / the values met from pos on, pos being the start of one
EndsFrom(bytes, pos) ==
  IF pos >= Len(bytes) THEN 0
  ELSE IF bytes[pos + 1] = END_BYTE THEN 1 + EndsFrom(bytes, pos + 1)
  ELSE EndsFrom(bytes, pos + ValueLen)
ValuesFrom(bytes, pos) ==
  IF pos >= Len(bytes) THEN 0
  ELSE IF bytes[pos + 1] = END_BYTE THEN ValuesFrom(bytes, pos + 1)
  ELSE 1 + ValuesFrom(bytes, pos + ValueLen)
NumEnds(bytes) == EndsFrom(bytes, ValueLen)
NumValues(bytes) == 1 + ValuesFrom(bytes, ValueLen)

\* C2: stream grammar. In every mode and for every root, while a run is in
\* progress the end bytes written are fewer than the values written (root
\* value and branch values) and the bytes are not yet a complete tree; when
\* the run has finished the two counts are equal, the last byte is an end
\* byte and the whole stream parses as exactly one tree with nothing left.
C2_StreamGrammar ==
  (WRITE_TREE /\ pc # "main") =>
    /\ Len(out) >= ValueLen
    /\ NumEnds(out) <= NumValues(out)
    /\ pc # "exit" => NumEnds(out) < NumValues(out) /\ read_tree(out, 0) = -1
    /\ pc = "exit" => /\ NumEnds(out) = NumValues(out)
                      /\ Last(out) = END_BYTE
                      /\ read_tree(out, 0) = Len(out)

C2_Witness ==
  /\ pc = "exit"
  /\ TwoByte
  /\ NumValues(out) >= 4
  /\ read_tree(out, 0) = Len(out)

RECURSIVE IsRTrunc(_)
\* v and all its right truncations pass the oracle
IsRTrunc(v) == v > 0 /\ IsPrime(v) /\ (v < g_base \/ IsRTrunc(v \div g_base))

\* the terms of A024770 with at most 3 digits
A024770 ==
  {2, 3, 5, 7, 23, 29, 31, 37, 53, 59, 71, 73, 79, 233, 239, 293, 311, 313,
   317, 373, 379, 593, 599, 719, 733, 739, 797}

\* C3: with no explicit root, RIGHT mode emits exactly the right-truncatable
\* primes of at most max_length digits, each once: every value emitted so far
\* is one, the 1-digit roots are the oracle-primes in 2..base-1, and at the
\* end of the run none is missing (base 10, max_length 3: roots {2,3,5,7} and
\* the A024770 terms of up to 3 digits).
C3_RightTruncatable ==
  (MainRun /\ TypeIs("r") /\ arg_root = 0 /\ Len(runs) = 0) =>
    /\ \A i \in 1..Len(emitted) :
         /\ IsRTrunc(emitted[i].v)
         /\ NumDigits(emitted[i].v, g_base) <= MaxLengthArg
    /\ Cardinality(ValSet(emitted)) = Len(emitted)
    /\ pc = "roots1" /\ iroot.r >= g_base =>
         /\ ValSet(emitted) = {v \in 1..(Pow(g_base, MaxLengthArg) - 1) : IsRTrunc(v)}
         /\ {emitted[i].v : i \in {j \in 1..Len(emitted) : emitted[j].lvl = 0}}
              = {p \in 2..(g_base - 1) : IsPrime(p)}
         /\ (g_base = DEFAULT_BASE /\ MaxLengthArg = 3) =>
              /\ ValSet(emitted) = A024770
              /\ {emitted[i].v : i \in {j \in 1..Len(emitted) : emitted[j].lvl = 0}}
                   = {2, 3, 5, 7}

C3_Witness ==
  /\ MainRun /\ TypeIs("r") /\ arg_root = 0 /\ Len(runs) = 0
  /\ pc = "roots1" /\ iroot.r >= g_base
  /\ g_base = DEFAULT_BASE
  /\ ValSet(emitted) = A024770

\* C4: length limit. No node emitted below the root has more than max_length
\* digits in the base, whatever the root and max_length.
C4_LengthLimit ==
  \A i \in 1..Len(emitted) : NumDigits(emitted[i].v, g_base) <= MaxLengthArg

\* every run of the behaviour has finished
AllRunsDone == Len(runs) >= 1 /\ pc = "exit" /\ Len(runs) = 1 + Len(PartitionRoots)

\* root and emitted values of the k-th run
RunValues(k) == {runs[k].root} \cup ValSet(runs[k].emitted)

\* C5: partitioning. For RIGHT mode and max_length >= 1 the values emitted by
\* the full-tree run are the union, over the 1-digit oracle-primes p in
\* 2..base-1, of {p} and the values emitted by the run with explicit root p;
\* the sets of different roots are disjoint.
C5_Partition ==
  (MainRun /\ TypeIs("r") /\ arg_root = 0 /\ MaxLengthArg >= 1 /\ AllRunsDone) =>
    /\ {runs[k].root : k \in 2..Len(runs)} = {p \in 2..(g_base - 1) : IsPrime(p)}
    /\ Len(runs) - 1 = Cardinality({p \in 2..(g_base - 1) : IsPrime(p)})
    /\ ValSet(runs[1].emitted) = UNION {RunValues(k) : k \in 2..Len(runs)}
    /\ \A j, k \in 2..Len(runs) : j # k => RunValues(j) \cap RunValues(k) = {}

C5_Witness ==
  /\ MainRun /\ TypeIs("r") /\ arg_root = 0 /\ AllRunsDone
  /\ Len(runs) >= 3
  /\ Len(runs[2].emitted) >= 2
  /\ Len(runs[3].emitted) >= 2

\* the digit appended to the parent to make node n, from the two values
DigitR(n) == n.v - n.p * g_base
DigitL(n) == (n.v - n.p) \div Pow(g_base, NumDigits(n.p, g_base))

\* C6 as stated: in modes R and L an appended digit d in 1..base-1 is written
\* as the label byte d-1, so the label bytes range over 0..base-2.
C6_LabelMinusOne ==
  (TypeIs("r") \/ TypeIs("l")) =>
    \A i \in 1..Len(emitted) :
      LET n == emitted[i]
          d == IF TypeIs("r") THEN DigitR(n) ELSE DigitL(n)
      IN  /\ d \in 1..(g_base - 1)
          /\ n.lab = <<d - 1>>
          /\ n.lab[1] \in 0..(g_base - 2)

\* C6 amended: in modes R and L an appended digit d in 1..base-1 is written
\* as the label byte d itself, so the label bytes range over 1..base-1 and
\* the byte 0 is never a label.
C6_LabelIsDigit ==
  (TypeIs("r") \/ TypeIs("l")) =>
    \A i \in 1..Len(emitted) :
      LET n == emitted[i]
          d == IF TypeIs("r") THEN DigitR(n) ELSE DigitL(n)
      IN  /\ d \in 1..(g_base - 1)
          /\ n.lab = <<d>>
          /\ n.lab[1] \in 1..(g_base - 1)

C6_Witness ==
  /\ TypeIs("l")
  /\ MainRun /\ arg_root = 0 /\ Len(runs) = 0
  /\ g_base > 2
  /\ \E i \in 1..Len(emitted) : emitted[i].lvl >= 1 /\ emitted[i].lab = <<g_base - 1>>
  /\ \E i \in 1..Len(emitted) : emitted[i].lvl >= 1 /\ emitted[i].lab = <<1>>

RECURSIVE ScanLabels(_, _)
\* the labels met from pos on when the byte at each label-or-end position
\* alone decides which of the two starts there
ScanLabels(bytes, pos) ==
  IF pos >= Len(bytes) THEN <<>>
  ELSE IF bytes[pos + 1] = END_BYTE THEN ScanLabels(bytes, pos + 1)
  ELSE <<SubSeq(bytes, pos + 1, pos + ValueLen)>> \o ScanLabels(bytes, pos + ValueLen)

\* C7: terminator disjointness. In every mode and base no label written has
\* 255 as its first byte: R/L labels lie in 1..base-1, the first byte of a
\* LOR label is 0 or 1, the first byte of a LAR label lies in 0..base-1; so
\* deciding label or end from the single byte at each position recovers
\* exactly the labels written, in order.
C7_TerminatorDisjoint ==
  /\ \A i \in 1..Len(emitted) :
       LET lab == emitted[i].lab
       IN  /\ Len(lab) = ValueLen
           /\ lab[1] # END_BYTE
           /\ (TypeIs("r") \/ TypeIs("l")) => lab[1] \in 1..(g_base - 1)
           /\ TypeIs("lor") => lab[1] \in {0, 1}
           /\ TypeIs("lar") => lab[1] \in 0..(g_base - 1)
  /\ Len(out) >= ValueLen =>
       ScanLabels(out, ValueLen) = [i \in 1..Len(emitted) |-> emitted[i].lab]

C7_Witness ==
  /\ g_base = MAX_BASE
  /\ pc = "exit"
  /\ \E i \in 1..Len(emitted) : emitted[i].lab[1] = END_BYTE - 1

\* the root marker the reader requires
Marker == [i \in 1..ValueLen |-> END_BYTE]

\* C8: root marker. Every stream written by an enumerator begins with a root
\* marker of the end byte's value 255, one byte in modes R/L and two in
\* LOR/LAR, and the reader goes past the start of a stream only if the stream
\* begins with that marker.
C8_RootMarker ==
  /\ (WRITE_TREE /\ pc # "main") =>
       Len(out) >= ValueLen /\ SubSeq(out, 1, ValueLen) = Marker
  /\ r_pc \notin {"idle", "error"} =>
       Len(Stream) >= ValueLen /\ SubSeq(Stream, 1, ValueLen) = Marker

\* the value of the parent of the i-th node of e in the tree the levels
\* describe: the latest earlier node one level up, or the root of the run
TreeParent(e, i) ==
  IF e[i].lvl = 0 THEN 0
  ELSE LET js == {j \in 1..(i - 1) : e[j].lvl = e[i].lvl - 1}
       IN  IF js = {} THEN g_root
           ELSE e[CHOOSE j \in js : \A k \in js : k <= j].v

\* C9: RIGHT mode child rule. Every node emitted with label digit d under a
\* parent of value P has value P*base + d with d in 1..base-1, P being the
\* value of its parent in the tree (the explicit root at the top, 0 above a
\* 1-digit root), so dividing the value by the base gives the parent.
C9_RightChild ==
  TypeIs("r") =>
    \A i \in 1..Len(emitted) :
      LET n == emitted[i]
      IN  /\ n.p = TreeParent(emitted, i)
          /\ n.lab[1] \in 1..(g_base - 1)
          /\ n.v = n.p * g_base + n.lab[1]
          /\ n.v \div g_base = n.p

C9_Witness ==
  /\ TypeIs("r")
  /\ MainRun /\ arg_root = 0 /\ Len(runs) = 0
  /\ \E i \in 1..Len(emitted) :
       /\ emitted[i].lvl >= 2
       /\ emitted[i].lab = <<g_base - 1>>
       /\ emitted[i].p >= g_base

\* C10: LEFT mode child rule. Every node emitted with label digit d under a
\* parent P of n digits has value P + d*base^n with d in 1..base-1, for
\* explicit roots of every length and at every depth, so the value has n+1
\* digits and removing the leading one gives the parent.
C10_LeftChild ==
  TypeIs("l") =>
    \A i \in 1..Len(emitted) :
      LET n == emitted[i]
          len == NumDigits(n.p, g_base)
      IN  /\ n.p = TreeParent(emitted, i)
          /\ n.lab[1] \in 1..(g_base - 1)
          /\ n.v = n.p + n.lab[1] * Pow(g_base, len)
          /\ NumDigits(n.v, g_base) = len + 1
          /\ n.v % Pow(g_base, len) = n.p

C10_Witness ==
  /\ TypeIs("l")
  /\ MainRun
  /\ NumDigits(g_root, g_base) >= 2
  /\ MaxLengthArg > NumDigits(g_root, g_base)
  /\ \E i \in 1..Len(emitted) : emitted[i].lvl = 1 /\ emitted[i].p = g_root

\* C11: LEFT_AND_RIGHT child rule. The child with label (dl, dr) of a parent
\* P of n digits has value dl*base^(n+1) + P*base + dr with dl, dr in
\* 1..base-1, so it has n+2 digits and stripping its leading and its trailing
\* digit gives P; P is the node's parent in the tree, and every node on the
\* chain from an emitted node up to (not including) an explicit root passed
\* the oracle.
C11_LarChild ==
  TypeIs("lar") =>
    \A i \in 1..Len(emitted) :
      LET n == emitted[i]
          len == NumDigits(n.p, g_base)
      IN  /\ IsPrime(n.v)
          /\ n.p = TreeParent(emitted, i)
          /\ n.lvl = 0 => n.v < g_base * g_base /\ n.lab = <<n.v \div g_base, n.v % g_base>>
          /\ n.lvl >= 1 =>
               /\ n.lab[1] \in 1..(g_base - 1)
               /\ n.lab[2] \in 1..(g_base - 1)
               /\ n.v = n.lab[1] * Pow(g_base, len + 1) + n.p * g_base + n.lab[2]
               /\ NumDigits(n.v, g_base) = len + 2
               /\ (n.v % Pow(g_base, len + 1)) \div g_base = n.p
               /\ n.p = g_root \/ \E j \in 1..(i - 1) : emitted[j].v = n.p

C11_Witness ==
  /\ TypeIs("lar")
  /\ g_base = DEFAULT_BASE
  /\ arg_root = 3
  /\ MaxLengthArg = 4
  /\ pc = "exit"
  /\ \E i \in 1..Len(emitted) : emitted[i].v = 131 /\ emitted[i].lab = <<1, 1>>

\* C12: LEFT_OR_RIGHT child rule. At a node of value P with n digits two
\* separate digit loops run over the same frame: a child labelled (0, d) has
\* value P + d*base^n and a child labelled (1, d) has value P*base + d, d in
\* 1..base-1; the right-append loop starts again from P whatever the
\* left-append loop added to the frame.
C12_LorChild ==
  TypeIs("lor") =>
    /\ \A i \in 1..Len(emitted) :
         LET n == emitted[i]
             len == NumDigits(n.p, g_base)
         IN  /\ n.p = TreeParent(emitted, i)
             /\ n.lab[1] \in {0, 1}
             /\ n.lab[2] \in 1..(g_base - 1)
             /\ n.lvl = 0 => n.lab = <<0, n.v>>
             /\ n.lab[1] = 0 => n.v = n.p + n.lab[2] * Pow(g_base, len)
             /\ n.lab[1] = 1 => n.v = n.p * g_base + n.lab[2]
    /\ (pc = "loop" /\ Frame.s = 1) =>
         STACK_CURR = STACK_PREV * g_base + (Frame.d - 1)

\* a node with a left-append child and, later, a right-append child
C12_Witness ==
  /\ TypeIs("lor")
  /\ variant = "truncprimes"
  /\ \E i, j \in 1..Len(emitted) :
       /\ i < j
       /\ emitted[i].lvl >= 1
       /\ emitted[j].lvl = emitted[i].lvl
       /\ \A k \in i..j : emitted[k].lvl >= emitted[i].lvl
       /\ emitted[i].lab[1] = 0
       /\ emitted[j].lab[1] = 1
       /\ emitted[j].v = emitted[i].p * g_base + emitted[j].lab[2]

\* the largest number of children a node can have in the mode
FanOutBound ==
  CASE TypeIs("r") \/ TypeIs("l") -> g_base - 1
    [] TypeIs("lor") -> 2 * (g_base - 1)
    [] TypeIs("lar") -> (g_base - 1) * (g_base - 1)

\* C13: fan-out bound. In every run no node has more than base-1 children in
\* modes R and L, 2(base-1) in LOR, (base-1)^2 in LAR, at any moment of its
\* exploration and when it is counted; and whenever the statistics build is
\* about to index _g_counts, _g_pmin and _g_pmax with the level and the
\* fan-out of a node, both indices are inside the arrays.
C13_FanOutBound ==
  /\ \A i \in 1..Len(frames) :
       /\ frames[i].children <= FanOutBound
       /\ frames[i].children < g_max_children
  /\ \A i \in 1..Len(counted) : counted[i].k <= FanOutBound
  /\ (WRITE_STATS /\ (pc = "ret" \/ (pc = "loop" /\ LoopDone))) =>
       /\ g_depth - 1 \in DOMAIN g_counts
       /\ Frame.children \in DOMAIN g_counts[g_depth - 1]
       /\ g_depth - 1 \in DOMAIN g_pmin
       /\ Frame.children \in DOMAIN g_pmin[g_depth - 1]
       /\ g_depth - 1 \in DOMAIN g_pmax
       /\ Frame.children \in DOMAIN g_pmax[g_depth - 1]

\* a node with the largest fan-out of its mode is about to be counted
C13_Witness ==
  /\ WRITE_STATS
  /\ TypeIs("lor")
  /\ pc = "loop" /\ LoopDone
  /\ Frame.children = FanOutBound

\* the index in e of the parent of the i-th node, 0 for the root of the run
ParentIdx(e, i) ==
  IF e[i].lvl = 0 THEN 0
  ELSE LET js == {j \in 1..(i - 1) : e[j].lvl = e[i].lvl - 1}
       IN  IF js = {} THEN 0 ELSE CHOOSE j \in js : \A k \in js : k <= j

\* the hashing function as its description gives it
\* rot32(n): return (n >> 32) | (n << 32)
RefRot32(n) == <<n[3], n[4], n[1], n[2]>>

\* h ^= rot32(8191*(127*h - d) + c)
RefUpdate(h, d, c) ==
  U64Xor(h, RefRot32(U64Add(U64MulSmall(U64Sub(U64MulSmall(h, 127), U64Of(d)), 8191), c)))

\* h = (lower 64 bits of node.value) >> 1, for a value below 2^31
RefSeed(v) == U64Of(v \div 2)

\* the path number of a child from its label
RefPath(lab) ==
  CASE TypeIs("r") \/ TypeIs("l") -> lab[1]
    [] TypeIs("lor") -> IF lab[1] = 0 THEN lab[2] ELSE g_base + lab[2]
    [] TypeIs("lar") -> lab[1] * g_base + lab[2]

RECURSIVE RefHash(_, _, _), RefFold(_, _, _, _, _)
\* hash(node) for the node of index i of the tree e, index 0 being the root
\* of value root (0: the synthetic root of a full-tree run, seeded 0)
RefHash(e, root, i) ==
  RefFold(e, root, i, i + 1, IF i = 0 THEN RefSeed(root) ELSE RefSeed(e[i].v))
\* the children of i from index j on, folded into h in traversal order
RefFold(e, root, i, j, h) ==
  IF j > Len(e) THEN h
  ELSE IF ParentIdx(e, j) = i
  THEN RefFold(e, root, i, j + 1, RefUpdate(h, RefPath(e[j].lab), RefHash(e, root, j)))
  ELSE RefFold(e, root, i, j + 1, h)

\* C14: hash formula. The value printed as "# hash" is hash(root) of the
\* reference recursion h = seed(node); for each child in traversal order
\* h = h XOR rot32(8191*(127*h - d) + hash(child)) modulo 2^64, with the path
\* number d the digit in R/L, the digit (left append) or base + digit (right
\* append) in LOR, left digit * base + right digit in LAR; a full-tree run
\* seeds its synthetic root with 0 and folds its 1-digit and 2-digit roots in
\* as children in emission order.
C14_HashFormula ==
  (WRITE_STATS /\ pc = "exit") => hash_out = <<RefHash(emitted, g_root, 0)>>

C14_Witness ==
  /\ WRITE_STATS /\ pc = "exit"
  /\ arg_root = 0 /\ Len(runs) = 1
  /\ TypeIs("lor")
  /\ Len(emitted) >= 6
  /\ \E i \in 1..Len(emitted) : emitted[i].lvl >= 2 /\ emitted[i].lab[1] = 1
  /\ hash_out = <<RefHash(emitted, g_root, 0)>>

RECURSIVE FoldRoots(_, _)
\* the hashes of the independent runs k+1.. folded into h, the path number of
\* a root being its value
FoldRoots(k, h) ==
  IF k > Len(PartitionRoots) THEN h
  ELSE FoldRoots(k + 1, HASH_UPDATE(h, PartitionRoots[k].v, runs[k + 1].hash))

\* C16: hash recombination. For every mode, base and max_length >= 1 the
\* hash of the full-tree run is the value obtained from 0 by folding, in
\* ascending root order, h = HASH_UPDATE(h, path number of the root, hash of
\* the independent run with that explicit root and the same max_length).
C16_Recombination ==
  (WRITE_STATS /\ arg_root = 0 /\ MaxLengthArg >= 1 /\ AllRunsDone) =>
    /\ \A k \in 1..Len(PartitionRoots) : runs[k + 1].root = PartitionRoots[k].v
    /\ \A k \in 1..(Len(PartitionRoots) - 1) :
         PartitionRoots[k].v < PartitionRoots[k + 1].v
    /\ runs[1].hash = FoldRoots(1, U64Zero)

C16_Witness ==
  /\ WRITE_STATS /\ arg_root = 0 /\ MaxLengthArg >= 2 /\ AllRunsDone
  /\ TypeIs("lar")
  /\ Len(PartitionRoots) >= 4
  /\ \E k \in 2..Len(runs) : Len(runs[k].emitted) >= 1
  /\ runs[1].hash = FoldRoots(1, U64Zero)
  /\ runs[1].hash # U64Zero

\* the run k explored a tree that is its root alone
SingleNode(k) == runs[k].emitted = <<>>

\* C18 as stated: hash sensitivity to node values. Two trees of the same
\* shape and the same branch labels that differ in the value of a single
\* node have different root hashes; here, two runs whose trees are a root
\* alone, with different root values.
C18_ValueSensitive ==
  (WRITE_STATS /\ AllRunsDone) =>
    \A j, k \in 1..Len(runs) :
      (SingleNode(j) /\ SingleNode(k) /\ runs[j].root # runs[k].root)
        => runs[j].hash # runs[k].hash

\* C18, amended: the hash depends on a node value through its seed, the
\* value without its lowest bit: two runs whose trees are a root alone have
\* the same hash exactly if their root values agree after the shift by one.
C18_SeedSensitive ==
  (WRITE_STATS /\ AllRunsDone) =>
    \A j, k \in 1..Len(runs) :
      (SingleNode(j) /\ SingleNode(k)) =>
        (runs[j].hash = runs[k].hash
           <=> runs[j].root \div 2 = runs[k].root \div 2)

C18_Witness ==
  /\ WRITE_STATS /\ AllRunsDone /\ arg_root = 0
  /\ \E j, k \in 2..Len(runs) :
       /\ SingleNode(j) /\ SingleNode(k)
       /\ runs[j].root = 2 /\ runs[k].root = 3
       /\ runs[j].hash = runs[k].hash
  /\ \E j, k \in 2..Len(runs) :
       /\ SingleNode(j) /\ SingleNode(k)
       /\ runs[j].hash # runs[k].hash

\* the nodes of the tree of the current run: 0 is the explicit root, i >= 1
\* the i-th emitted node
TreeNodes == (IF g_root > 0 THEN {0} ELSE {}) \cup (1..Len(emitted))
NodeVal(i) == IF i = 0 THEN g_root ELSE emitted[i].v
NodeLevel(i) == IF i = 0 THEN 0 ELSE emitted[i].lvl
NodeKids(i) == {j \in 1..Len(emitted) : ParentIdx(emitted, j) = i}
NodeEntry(i) == [v |-> NodeVal(i), lvl |-> NodeLevel(i), k |-> Cardinality(NodeKids(i))]

RECURSIVE RefPostKids(_, _, _)
\* the subtrees of the children of i from index j on, each in post-order
RefPostKids(i, j, acc) ==
  IF j > Len(emitted) THEN acc
  ELSE IF ParentIdx(emitted, j) = i
  THEN RefPostKids(i, j + 1, acc \o RefPostKids(j, j + 1, <<>>) \o <<NodeEntry(j)>>)
  ELSE RefPostKids(i, j + 1, acc)

\* the whole tree in post-order: every node after all of its descendants
RefPostOrder ==
  RefPostKids(0, 1, <<>>) \o (IF g_root > 0 THEN <<NodeEntry(0)>> ELSE <<>>)

\* the most digits a value of the model can have
MaxDigits == 32

Extensions(v) ==
  LET n == NumDigits(v, g_base)
      right == {<<<<1, d>>, v * g_base + d>> : d \in 1..(g_base - 1)}
      left == {<<<<0, d>>, d * Pow(g_base, n) + v>> : d \in 1..(g_base - 1)}
  IN  CASE TypeIs("r") -> right
        [] TypeIs("l") -> left
        [] TypeIs("lor") -> left \cup right
        [] TypeIs("lar") ->
             {<<<<dl, dr>>, dl * Pow(g_base, n + 1) + v * g_base + dr>> :
                dl \in 1..(g_base - 1), dr \in 1..(g_base - 1)}

\* the number of candidate extensions of v that pass the oracle
NumPrimeExt(v) == Cardinality({x \in Extensions(v) : IsPrime(x[2])})

\* the run keeps to max_length: a full-tree run, or an explicit root that is
\* not longer than max_length
RespectsLimit == g_root = 0 \/ NumDigits(g_root, g_base) <= MaxLengthArg

MpzBit(m, k) ==
  LET i == Len(m) - (k \div 16)
  IN  IF i >= 1 THEN (m[i] \div Pow(2, k % 16)) % 2 ELSE 0

\* the seed of the node hashed on its own has just been taken
SeedTaken == h_acc.pos = 0

\* C15 as stated: hash seed. The initial hash of a node is its value shifted
\* right by one bit, (node.value >> 1) reduced to 64 bits, for every value,
\* the values of 2^64 and above included: bit k of the seed is bit k+1 of the
\* value for k = 0..63.
C15_SeedShiftThenReduce ==
  SeedTaken => \A k \in 0..63 : MpzBit(h_acc.h, k) = MpzBit(h_in.value, k + 1)

\* C15, amended: the initial hash is the lower 64 bits of the value, shifted
\* right by one bit: bit k of the seed is bit k+1 of the value for k = 0..62
\* and bit 63 of the seed is 0.
C15_SeedReduceThenShift ==
  SeedTaken =>
    /\ Len(h_acc.h) = 4
    /\ \A k \in 0..62 : MpzBit(h_acc.h, k) = MpzBit(h_in.value, k + 1)
    /\ MpzBit(h_acc.h, 63) = 0

C15_Witness ==
  /\ SeedTaken
  /\ Len(h_in.value) >= 5
  /\ MpzBit(h_in.value, 64) = 1
  /\ MpzBit(h_in.value, 63) = 1
  /\ MpzBit(h_in.value, 0) = 1
  /\ h_acc.h = <<32767, 65535, 65535, 65535>>

\* the two labellings differ in the path number of the child of index i alone
OneLabelChanged(i) ==
  /\ i \in 1..Len(h_in.kids)
  /\ \A j \in 1..Len(h_in.kids) : (h_in.kids[j].d # h_in.kids[j].e) <=> j = i

\* C17 as stated: hash sensitivity to labels. Changing the path number of
\* exactly one child of a tree, every node value, every other label and the
\* traversal order kept, changes the hash of the tree root.
C17_LabelSensitive ==
  (h_acc.pos = Len(h_in.kids) /\ \E i \in 1..Len(h_in.kids) : OneLabelChanged(i))
    => h_acc.h # h_acc.g

\* C17, amended: changing the path number of one child changes the hash of
\* its parent as it stands right after that child is folded in, so changing
\* the path number of the last child of the root changes the root hash; the
\* children folded in later can cancel the change.
C17_LastLabelSensitive ==
  (h_acc.pos >= 1 /\ OneLabelChanged(h_acc.pos)) => h_acc.h # h_acc.g

C17_Witness ==
  /\ Len(h_in.kids) = 2
  /\ h_acc.pos = 2
  /\ OneLabelChanged(2)
  /\ Len(h_in.value) = 4
  /\ Len(h_in.kids[1].value) = 5
  /\ h_acc.h # h_acc.g

\* the values of the nodes of D digits with exactly k children
BucketValues(D, k) ==
  {NodeVal(i) : i \in {j \in TreeNodes :
                         /\ NumDigits(NodeVal(j), g_base) = D
                         /\ Cardinality(NodeKids(j)) = k}}

SetMin(S) == CHOOSE x \in S : \A y \in S : x <= y
SetMax(S) == CHOOSE x \in S : \A y \in S : y <= x

\* C21: statistics min/max. When a run ends, for every (level, fan-out)
\* bucket with a nonzero count the stored minimum and maximum are the smallest
\* and the largest node value counted in that bucket, whatever the order of
\* the visits; a bucket with count 0 keeps 0 for both.
C21_StatMinMax ==
  (WRITE_STATS /\ pc = "exit") =>
    \A n \in 1..Len(stats_out) :
      \A k \in 0..(g_max_children - 1) :
        LET row == stats_out[n]
            vs == BucketValues(row.digits, k)
        IN  IF row.counts[k] = 0
            THEN row.pmin[k] = 0 /\ row.pmax[k] = 0 /\ vs = {}
            ELSE /\ vs # {}
                 /\ row.pmin[k] = SetMin(vs)
                 /\ row.pmax[k] = SetMax(vs)

C21_Witness ==
  /\ WRITE_STATS /\ pc = "exit" /\ arg_root = 0 /\ Len(runs) = 1
  /\ \E n \in 1..Len(stats_out) :
       \E k \in 0..(g_max_children - 1) :
         /\ stats_out[n].counts[k] >= 3
         /\ stats_out[n].pmin[k] = SetMin(BucketValues(stats_out[n].digits, k))
         /\ stats_out[n].pmax[k] = SetMax(BucketValues(stats_out[n].digits, k))
         /\ stats_out[n].pmin[k] < stats_out[n].pmax[k]
         \* the smallest value of the bucket was not the first one counted
         /\ \E a, b \in 1..Len(counted) :
              /\ a < b
              /\ counted[a].k = k /\ counted[b].k = k
              /\ NumDigits(counted[a].v, g_base) = stats_out[n].digits
              /\ counted[b].v = stats_out[n].pmin[k]
              /\ counted[a].v > counted[b].v

\* the checker function fn has returned
Returned(fn) == p_out.fn = fn

\* every right-truncation of a, down to the leading digit, passes the oracle
RefRTrunc(a, b) ==
  a > 0 /\ \A k \in 0..(NumDigits(a, b) - 1) : IsPrime(a \div Pow(b, k))

\* C22: is_r_truncprime(a, b) returns true if and only if a > 0 and every
\* right-truncation of a in base b (a, a div b, a div b^2, ... down to the
\* leading digit) passes the oracle.
C22_RTruncIff ==
  Returned("r") => (p_out.ret <=> RefRTrunc(p_in.a, p_in.b))

RECURSIVE RefLarRec(_, _, _)
\* n, taken as a number of len digits, has a nonzero leading digit and is
\* prime, and so on for n without its two outer digits until one or two
\* digits remain
RefLarRec(n, len, b) ==
  /\ n >= Pow(b, len - 1)
  /\ IsPrime(n)
  /\ len <= 2 \/ RefLarRec((n % Pow(b, len - 1)) \div b, len - 2, b)

RefLarTrunc(a, b) == a > 0 /\ RefLarRec(a, NumDigits(a, b), b)

\* C23: is_lar_truncprime(a, b) returns true if and only if a is a value a
\* LEFT_AND_RIGHT full-tree run can reach: a is oracle-prime, and removing
\* both the leading and the trailing digit again and again yields, at every
\* step until one or two digits remain, an oracle-prime whose leading digit is
\* nonzero; no step may produce an empty or all-zero remainder before the
\* 1- or 2-digit root is reached.
C23_LarTruncIff ==
  Returned("lar") => (p_out.ret <=> RefLarTrunc(p_in.a, p_in.b))

\* every digit of a is nonzero and every left-truncation of a, down to the
\* last digit, passes the oracle
RefLTrunc(a, b) ==
  /\ a > 0
  /\ \A k \in 0..(NumDigits(a, b) - 1) : (a \div Pow(b, k)) % b # 0
  /\ \A k \in 1..NumDigits(a, b) : IsPrime(a % Pow(b, k))

\* C24: is_l_truncprime(a, b) returns true if and only if a > 0, every digit
\* of a in base b is nonzero, and every left-truncation of a (a, a without
\* its leading digit, ... down to the last digit) passes the oracle: exactly
\* the values a LEFT-mode full-tree run emits.
C24_LTruncIff ==
  Returned("l") => (p_out.ret <=> RefLTrunc(p_in.a, p_in.b))

RECURSIVE RefLorRec(_, _, _)
\* n of len nonzero digits is prime and, unless it is a single digit, its
\* right-truncation or its left-truncation is again such a value
RefLorRec(n, len, b) ==
  /\ IsPrime(n)
  /\ \/ len = 1
     \/ RefLorRec(n \div b, len - 1, b)
     \/ RefLorRec(n % Pow(b, len - 1), len - 1, b)

RefLorTrunc(a, b) ==
  /\ a > 0
  /\ \A k \in 0..(NumDigits(a, b) - 1) : (a \div Pow(b, k)) % b # 0
  /\ RefLorRec(a, NumDigits(a, b), b)

\* C25: is_lor_truncprime(a, b) returns true if and only if there is a
\* sequence of single-digit truncations, each from the left or from the
\* right, that leads from a down to a 1-digit oracle-prime with every
\* intermediate value oracle-prime and every digit of a nonzero; when both
\* truncations of a value are prime the result is true if either branch
\* succeeds.
C25_LorTruncIff ==
  Returned("lor") => (p_out.ret <=> RefLorTrunc(p_in.a, p_in.b))

\* the table holds the powers of the base, one for each index below its length
PowersExact ==
  /\ DOMAIN g_powers = 0..(g_plen - 1)
  /\ \A k \in 0..(g_plen - 1) : g_powers[k] = Pow(g_base, k)

\* what a call for the index p may do to the table: append the entries from
\* the old length to p, or nothing
AppendsUpTo(p) ==
  IF p >= g_plen
  THEN /\ g_plen' = p + 1
       /\ DOMAIN g_powers' = 0..p
       /\ \A k \in 0..(g_plen - 1) : g_powers'[k] = g_powers[k]
       /\ \A k \in g_plen..p : g_powers'[k] = Pow(g_base, k)
  ELSE g_plen' = g_plen /\ g_powers' = g_powers

\* init_globals() between two explorations makes a new table of length 1
NewTable == frames = <<>> /\ frames' = <<>> /\ g_plen' = 1

\* C26: the power cache holds powers[k] = base^k for every index k below its
\* length; a call for an index p at or above the length appends exactly the
\* entries from the old length to p, a call for an index below the length
\* changes nothing; entries are never rewritten and the length never
\* decreases during an exploration.
C26_PowerCache ==
  /\ []PowersExact
  /\ [][NewTable \/ \E p \in 0..MaxDigits : AppendsUpTo(p)]_vars

\* the table has grown during an exploration
C26_Witness == frames # <<>> /\ g_plen >= 3 /\ g_plen = g_rlen + g_depth

\* the node explored by the i-th active call is the frame at the depth it was
\* called with; that frame and the frames below it are as they were
FramesKept ==
  \A i \in 1..Len(frames) :
    /\ frames[i].at < g_depth
    /\ \A j \in 0..frames[i].at : g_stack[j] = frames[i].saved[j]

\* a step in which the innermost active call returns
Returns == Len(frames') < Len(frames)

\* the call returns with the depth and the frames 0..depth it was called with
ReturnRestores ==
  Returns => /\ g_depth' = Frame.at
             /\ \A j \in 0..Frame.at : g_stack'[j] = Frame.saved[j]

\* the digit loops of the active call are about to try a candidate
OracleQuery ==
  /\ frames # <<>>
  /\ pc = "loop"
  /\ Frame.d < g_base
  /\ TypeIs("lar") => Frame.s < g_base

\* the parent's value with the digits of the active call added to it
Extended(prev) ==
  CASE TypeIs("r") -> prev * g_base + Frame.d
    [] TypeIs("l") -> Frame.d * Pow(g_base, NumDigits(prev, g_base)) + prev
    [] TypeIs("lor") ->
         IF Frame.s = 0
         THEN Frame.d * Pow(g_base, NumDigits(prev, g_base)) + prev
         ELSE prev * g_base + Frame.d
    [] TypeIs("lar") ->
         Frame.s * Pow(g_base, NumDigits(prev, g_base) + 1) + prev * g_base + Frame.d

\* the value given to the oracle is the parent's value extended
OracleArg ==
  (OracleQuery /\ (frames' # frames \/ pc' # pc)) =>
     g_stack'[g_depth] = Extended(STACK_PREV)

\* C27: a call that explores a node at depth D returns with the depth counter
\* equal to D and with the stack frames 0..D holding the values they held at
\* the call, only deeper frames being written; so whenever the oracle is
\* queried the current frame holds the parent frame's value extended by the
\* digit or digits being tried.
C27_Backtracking ==
  /\ []FramesKept
  /\ [][ReturnRestores /\ OracleArg]_vars

\* a call has returned into the digit loop of its caller, itself a nested
\* call, which is about to try its next candidate
C27_Witness ==
  /\ Len(frames) >= 2
  /\ Frame.children >= 1
  /\ OracleQuery

\* the i-th and the j-th node written are children of one node, i first: they
\* are of one level and no node of a lower level is written between them
Siblings(e, i, j) ==
  /\ i < j
  /\ e[i].lvl = e[j].lvl
  /\ \A k \in i..j : e[k].lvl >= e[i].lvl

\* label a comes before label b: by digit in R/L, by (side, digit) in LOR and
\* by (left digit, right digit) in LAR
LabelBefore(a, b) ==
  IF ValueLen = 1 THEN a[1] < b[1]
  ELSE a[1] < b[1] \/ (a[1] = b[1] /\ a[2] < b[2])

\* the digits of a label written by the recursion functions
LabelDigits(lab) ==
  CASE TypeIs("r") \/ TypeIs("l") -> {lab[1]}
    [] TypeIs("lor") -> {lab[2]}
    [] TypeIs("lar") -> {lab[1], lab[2]}

ClosesRoot(k) == tp_out[k].kind = "end" /\ tp_out[k].depth = 0

\* the calls that return 0 are those made after the root frame was closed
ZeroAfterRootOnly ==
  \A k \in 1..Len(tp_out) :
    tp_out[k].rv = 0 <=> \E j \in 1..(k - 1) : ClosesRoot(j)

\* a call made after the root frame was closed returns 0 and leaves the
\* state, the value and the bytes as they are
EndCallKeeps ==
  (Len(tp_out') > Len(tp_out) /\ \E j \in 1..Len(tp_out) : ClosesRoot(j)) =>
     /\ Last(tp_out').rv = 0
     /\ UNCHANGED <<tp_state, tp_value, tp_ret>>

\* C29: generator end. Once a TP_next_r/l/lor/lar call has returned the
\* terminator that closes the root frame (the depth reaches 0), every later
\* call on that state returns 0 and changes nothing in the state; before that
\* point no call returns 0.
C29_GeneratorEnd ==
  /\ []ZeroAfterRootOnly
  /\ [][EndCallKeeps]_vars

\* a tree of several nodes has been walked to its end and calls were made
\* after it
C29_Witness ==
  /\ Len(tp_out) >= 6 + GenMaxEndCalls
  /\ Cardinality({k \in 1..Len(tp_out) : tp_out[k].rv = 0}) = GenMaxEndCalls
  /\ tp_state.depth = 0

\* the latest call before the k-th that returned a label with the depth d
LabelAt(k, d) ==
  LET js == {j \in 1..(k - 1) : tp_out[j].kind = "label" /\ tp_out[j].depth = d}
  IN  CHOOSE j \in js : \A i \in js : i <= j

\* the number p with the digit or digits of a label added to it
Labelled(p, lab) ==
  LET b == tp_state.base
      left(d) == d * Pow(b, NumDigits(p, b)) + p
      right(d) == p * b + d
  IN  CASE TP_next = "r" -> right(lab[1])
        [] TP_next = "l" -> left(lab[1])
        [] TP_next = "lor" -> IF lab[1] = 0 THEN left(lab[2]) ELSE right(lab[2])
        [] TP_next = "lar" -> lab[1] * Pow(b, NumDigits(p, b) + 1) + p * b + lab[2]

RECURSIVE NodeNumber(_)
\* the number of the node whose label the j-th call returned: the root, or
\* the number of its parent with the label added
NodeNumber(j) ==
  IF tp_out[j].depth = 1 THEN tp_state.root
  ELSE Labelled(NodeNumber(LabelAt(j, tp_out[j].depth - 1)), tp_out[j].bytes)

\* the labels returned for the children of the node the k-th call closed
ChildLabels(k) ==
  {j \in (LabelAt(k, tp_out[k].depth + 1) + 1)..(k - 1) :
     tp_out[j].kind = "label" /\ tp_out[j].depth = tp_out[k].depth + 2}

\* the value the k-th call left is set, for the node of number n
ValueSetFor(k, n) ==
  /\ tp_out[k].num = n
  /\ tp_out[k].len = NumDigits(n, tp_state.base)

\* C30: generator value yield. In TP_PRE_ORDER mode a call sets value.len
\* nonzero exactly when it returns a node's label (root bytes), with value.num
\* the node's number and value.len its digit count in the base; in
\* TP_POST_ORDER mode a call sets value.len nonzero exactly when it returns a
\* node's terminator, with value.children the number of child subtrees
\* returned for that node; in TP_BYTES_ONLY mode value.len is 0 after every
\* call.
C30_ValueYield ==
  \A k \in 1..Len(tp_out) :
    LET r == tp_out[k]
    IN  /\ tp_state.mode = TP_BYTES_ONLY => r.len = 0
        /\ tp_state.mode = TP_PRE_ORDER =>
             /\ r.len # 0 <=> r.kind = "label"
             /\ r.kind = "label" => ValueSetFor(k, NodeNumber(k))
        /\ (tp_state.mode = TP_POST_ORDER /\ r.rv # 0) =>
             /\ r.len # 0 <=> r.kind = "end"
             /\ r.kind = "end" =>
                  /\ ValueSetFor(k, NodeNumber(LabelAt(k, r.depth + 1)))
                  /\ r.children = U32(Cardinality(ChildLabels(k)))

\* in TP_POST_ORDER mode the terminator of a node with two child subtrees has
\* been returned, the node not being the root
C30_Witness ==
  /\ tp_state.mode = TP_POST_ORDER
  /\ \E k \in 1..Len(tp_out) :
       /\ tp_out[k].kind = "end"
       /\ tp_out[k].depth >= 1
       /\ tp_out[k].children = U32(2)
       /\ Cardinality(ChildLabels(k)) = 2

(* ------------------- two generators in one program --------------------- *)
PairMaxBase == 3      \* the two generators have bases 2..PairMaxBase
PairMaxRoot == 3      \* and different roots in 1..PairMaxRoot
PairMaxCalls == 6     \* each of the two is called up to PairMaxCalls times

\* the candidate cand is put in the current frame of st and tested; v are the
\* bytes of the append
TP_test(st, cand, v) ==
  LET tried == [st EXCEPT !.stack[st.depth].n = cand, !.stack[st.depth].i = @ + 1]
  IN  IF PRIME_TEST(cand) THEN TP_push(tried, v) ELSE tried

\* one pass of the while (1) loop of TP_next_r, TP_next_l, TP_next_lor or
\* TP_next_lar (g.fn) on the TP_STATE g.state, the TP_VALUE g.value and the
\* bytes g.ret; g.pc is "idle" once the pass has returned
TP_pass(g) ==
  LET fn == g.fn
      st == g.state
      d == st.depth
      base == st.base
      curr == st.stack[d]
      prev == st.stack[d - 1]
      lar == fn = "lar"
      len == st.rlen + (IF lar THEN 2 * d ELSE d)
      nodelen == st.rlen + (IF lar THEN 2 * (d - 1) ELSE d - 1)
      path == IF prev.i = 0 THEN UINT32_MAX ELSE U32(prev.i - 1)
      last == CASE fn \in {"r", "l"} -> base
                [] fn = "lor" -> 2 * base
                [] fn = "lar" -> base * base
      first == IF curr.i = 1 THEN prev.n ELSE curr.n
      grown == WithPowers(st, len)
      yield_root ==
        LET rv == IF fn \in {"r", "l"} THEN 1 ELSE 2
            st1 == [st EXCEPT !.stack[d].i = IF lar THEN base ELSE 1]
            val == set_value(st.mode = TP_PRE_ORDER, g.value, nodelen, d - 1,
                             UINT32_MAX, path)
            bytes == IF rv = 1 THEN [g.ret EXCEPT ![1] = curr.v[1]] ELSE curr.v
        IN  [g EXCEPT !.state = st1, !.value = val, !.ret = bytes, !.pc = "idle",
                      !.out = Append(@, Yielded(rv, "label", st1, val, bytes))]
      yield_end ==
        LET val == set_value(st.mode = TP_POST_ORDER, g.value, nodelen, d - 1,
                             U32(curr.c), path)
            st1 == [st EXCEPT !.depth = d - 1]
            bytes == [g.ret EXCEPT ![1] = END_BYTE]
        IN  [g EXCEPT !.state = st1, !.value = val, !.ret = bytes, !.pc = "idle",
                      !.out = Append(@, Yielded(1, "end", st1, val, bytes))]
  IN  CASE curr.i = 0 -> yield_root
        [] curr.i # 0 /\ U32Lt(st.maxlen, U32(len)) ->
             [g EXCEPT !.state.stack[d].i = IF lar THEN base * base ELSE base]
        [] OTHER ->
             CASE curr.i >= last -> yield_end
               [] curr.i < last /\ fn = "r" ->
                    [g EXCEPT !.state =
                       TP_test(st, (IF curr.i = 1 THEN prev.n * base ELSE curr.n) + 1,
                               <<curr.i, NextV(st)[2]>>)]
               [] curr.i < last /\ fn = "l" ->
                    [g EXCEPT !.state =
                       TP_test(grown, first + grown.pow[len - 1],
                               <<curr.i, NextV(st)[2]>>)]
               [] curr.i < base /\ fn = "lor" ->
                    [g EXCEPT !.state =
                       TP_test(grown, first + grown.pow[len - 1], <<0, curr.i>>)]
               [] curr.i = base /\ fn = "lor" ->
                    [g EXCEPT !.state.stack[d].n = prev.n * base,
                              !.state.stack[d].i = @ + 1]
               [] curr.i > base /\ curr.i < last /\ fn = "lor" ->
                    [g EXCEPT !.state = TP_test(st, curr.n + 1, <<1, curr.i - base>>)]
               [] curr.i < last /\ lar /\ curr.i % base = 0 ->
                    [g EXCEPT !.state =
                       [grown EXCEPT
                          !.stack[d].n = (IF curr.i = base THEN prev.n * base
                                          ELSE curr.n - (base - 1)) + grown.pow[len - 1],
                          !.stack[d].i = @ + 1]]
               [] curr.i < last /\ lar /\ curr.i % base # 0 ->
                    [g EXCEPT !.state =
                       TP_test(st, curr.n + 1, <<curr.i \div base, curr.i % base>>)]

\* the passes of the loop up to the return of the call
RECURSIVE TP_loop(_)
TP_loop(g) == IF g.pc = "idle" THEN g ELSE TP_loop(TP_pass(g))

\* one call TP_next_*(&g.state, g.ret, &g.value)
TP_call(g) ==
  IF EndOfGenerator(g.state)
  THEN [g EXCEPT !.out = Append(@, Yielded(0, "none", g.state, g.value, g.ret))]
  ELSE TP_loop(TP_pass([g EXCEPT !.pc = "loop"]))

\* a generator as TP_init and the declarations of its caller leave it
Generator(c) ==
  [fn |-> c.fn, state |-> TP_init(c.base, c.root, UINT32_MAX, <<END_BYTE, END_BYTE>>, c.mode),
   value |-> [len |-> 0, num |-> 0 - 1, children |-> U32(0), path |-> U32(0)],
   ret |-> <<0, 0>>, pc |-> "idle", out |-> <<>>]

\* the generator of the arguments c after n calls, nothing else being run
RECURSIVE Alone(_, _)
Alone(c, n) == IF n = 0 THEN Generator(c) ELSE TP_call(Alone(c, n - 1))

\* the TP_STATE, TP_VALUE and bytes a call on generator i is passed
PassedFirst(pair, i) == pair[1].gen
Passed(pair, i) == pair[i].gen

PairInputs ==
  [fn : PrimeTypes, base : 2..PairMaxBase, root : 1..PairMaxRoot,
   mode : {TP_PRE_ORDER, TP_POST_ORDER}]

PairInit ==
  /\ ProgOff
  /\ HashOff
  /\ PredOff
  /\ DriverOff
  /\ \E c1 \in PairInputs, c2 \in PairInputs :
       /\ c1.root # c2.root
       /\ c1.fn = c2.fn
       /\ c1.base = c2.base
       /\ c1.mode = c2.mode
       /\ tp_pair = <<[args |-> c1, gen |-> Generator(c1)],
                      [args |-> c2, gen |-> Generator(c2)]>>
  /\ sp = [pc |-> "off"]

Zeros(g) == Cardinality({k \in 1..Len(g.out) : g.out[k].rv = 0})

\* the program calls TP_next_* on its generator i
PairCall(i) ==
  /\ Len(tp_pair[i].gen.out) < PairMaxCalls
  /\ tp_pair' = [tp_pair EXCEPT ![i].gen = TP_call(Passed(tp_pair, i))]
  /\ UNCHANGED <<progVars, hashVars, predVars, TP_next, tp_state, tp_value, tp_ret,
                 tp_pc, tp_out, tp_r, sp>>

PairNext == PairCall(1) \/ PairCall(2)

PairSpec == PairInit /\ [][PairNext]_vars

\* C31: two generators made with different roots and called in any order each
\* return, call after call, the bytes and values they return when run alone,
\* and a call on one leaves the stack, powers, depth and counters of the
\* other as they were
SameAsAlone ==
  \A i \in DOMAIN tp_pair :
    tp_pair[i].gen = Alone(tp_pair[i].args, Len(tp_pair[i].gen.out))
OtherUntouched ==
  \A i \in DOMAIN tp_pair :
    tp_pair'[i].gen # tp_pair[i].gen =>
      \A j \in DOMAIN tp_pair \ {i} : tp_pair'[j] = tp_pair[j]
SameValue(i, j) == i < j /\ emitted[i].v = emitted[j].v
C32_Duplicates ==
  IF TypeIs("lor")
  THEN \A i, j \in 1..Len(emitted) :
         (SameValue(i, j) /\ Siblings(emitted, i, j)) =>
            emitted[i].lab[1] # emitted[j].lab[1]
  ELSE /\ Cardinality(ValSet(emitted)) = Len(emitted)
       /\ g_root # 0 => g_root \notin ValSet(emitted)

\* a LEFT_OR_RIGHT run has emitted one number at two nodes with different
\* parents, once as a left append and once as a right append
C32_Witness ==
  /\ TypeIs("lor")
  /\ \E i, j \in 1..Len(emitted) :
       /\ emitted[i].v = emitted[j].v
       /\ emitted[i].lvl >= 1
       /\ emitted[j].lvl >= 1
       /\ emitted[i].lab[1] = 0
       /\ emitted[j].lab[1] = 1
       /\ ~Siblings(emitted, i, j)
       /\ ~Siblings(emitted, j, i)

(* ----------------------- the generator keeps running ------------------- *)
\* a call that has been made runs on: no step of the loop is put off for
\* ever, and the caller of process_root calls again after every return
GenLiveSpec == GenSpec /\ WF_vars(GenNext)

\* the max_length the generator was made with is finite
FiniteLimit == tp_state.maxlen # UINT32_MAX

\* C33: with a finite max_length every call of TP_next_r/l/lor/lar returns
\* after finitely many passes of its loop, and after finitely many calls the
\* generator has ended and returns 0
C33_Terminates ==
  FiniteLimit => /\ [](tp_pc = "loop" => <>(tp_pc = "idle"))
                 /\ <>EndOfGenerator(tp_state)

(* --------------- truncprimes2.c: main() and process_root() -------------- *)
DriveLongLen == 30    \* a max_length no number of a followed tree reaches

\* the command lines given to both programs: tree output in every mode
DriveConfigs ==
  [variant : {"truncprimes"}, build : {"tree"}, base : 2..MaxBase, ptype : PrimeTypes,
   maxlength : (0..MaxLen) \cup {DriveLongLen}, root : 0..MaxRoot]

DriveInit ==
  \E c \in DriveConfigs :
    /\ InitWith(c)
    /\ HashOff
    /\ PredOff
    /\ GenOff

DriveRest == <<progVars, hashVars, predVars, tp_pair, sp>>

\* the TP_VALUE of process_root as its declaration leaves it
NoValue == [len : {0, LIMB}, num : {0 - 1}, children : {U32(0)}, path : {U32(0)}]

\* main() of truncprimes2.c, run with the arguments of the finished run of
\* truncprimes.c: TP_next is set; without a root the root bytes are written
\* and the loop starts at r = 1, with a root process_root makes its generator
tp2_main ==
  /\ pc = "exit"
  /\ TP_next = "none"
  /\ TP_next' = g_prime_type
  /\ IF arg_root = 0
     THEN /\ tp_pc' = "main"
          /\ tp_r' = 1
          /\ UNCHANGED <<tp_state, tp_value>>
     ELSE /\ tp_pc' = "idle"
          /\ tp_state' = TP_init(g_base, arg_root, g_maxlength, <<END_BYTE, END_BYTE>>,
                                 TP_BYTES_ONLY)
          /\ tp_value' \in NoValue
          /\ UNCHANGED tp_r
  /\ UNCHANGED <<DriveRest, tp_ret, tp_out>>

\* uint32_t limit = arg_base; if lar: limit *= arg_base
tp2_limit == IF TP_next = "lar" THEN g_base * g_base ELSE g_base

\* one iteration of the loop of main(): r is skipped if it is not prime, else
\* process_root makes the generator of the root r
tp2_root ==
  /\ tp_pc = "main"
  /\ tp_r < tp2_limit
  /\ IF PRIME_TEST(tp_r)
     THEN /\ \E rootv \in LoopRootBytes(TP_next, g_base, tp_r) :
               tp_state' = TP_init(g_base, tp_r, g_maxlength, rootv, TP_BYTES_ONLY)
          /\ tp_value' \in NoValue
          /\ tp_pc' = "idle"
          /\ UNCHANGED tp_r
     ELSE /\ tp_r' = tp_r + 1
          /\ UNCHANGED <<tp_state, tp_value, tp_pc>>
  /\ UNCHANGED <<DriveRest, TP_next, tp_ret, tp_out>>

\* TP_next has returned 0: the loop of process_root ends, and main() goes on
\* with the next r or has written its one tree
tp2_return ==
  /\ tp_pc = "idle"
  /\ TP_next # "none"
  /\ EndOfGenerator(tp_state)
  /\ tp_out' = Append(tp_out, Yielded(0, "none", tp_state, tp_value, tp_ret))
  /\ IF arg_root = 0
     THEN tp_pc' = "main" /\ tp_r' = tp_r + 1
     ELSE tp_pc' = "done" /\ UNCHANGED tp_r
  /\ UNCHANGED <<DriveRest, TP_next, tp_state, tp_value, tp_ret>>

\* the loop of main() is over: write_byte(255), flush_bytes()
tp2_end ==
  /\ tp_pc = "main"
  /\ tp_r = tp2_limit
  /\ tp_pc' = "done"
  /\ UNCHANGED <<DriveRest, TP_next, tp_state, tp_value, tp_ret, tp_out, tp_r>>

RECURSIVE BytesOf(_)
\* write_bytes(bytes, ret) for the calls that have returned
BytesOf(calls) ==
  IF calls = <<>> THEN <<>> ELSE BytesOf(Front(calls)) \o Last(calls).bytes

\* the bytes truncprimes2.c has written so far
tp2_written ==
  (IF arg_root = 0 /\ TP_next # "none"
   THEN (IF TP_next \in {"lor", "lar"} THEN <<END_BYTE, END_BYTE>> ELSE <<END_BYTE>>)
   ELSE <<>>)
  \o BytesOf(tp_out)
  \o (IF arg_root = 0 /\ tp_pc = "done" THEN <<END_BYTE>> ELSE <<>>)

DriveNext ==
  \/ EnumNext
  \/ tp2_main \/ tp2_root \/ tp2_return \/ tp2_end
  \/ TPCall \/ TPYieldRoot \/ TPSkip
  \/ TPAppendR \/ TPAppendL
  \/ TPAppendLorLeft \/ TPLorSwitch \/ TPAppendLorRight
  \/ TPLarLeft \/ TPLarRight
  \/ TPYieldEnd

DriveSpec == DriveInit /\ [][DriveNext]_vars

\* both programs run on: no step of either is put off for ever
DriveLiveSpec == DriveSpec /\ WF_vars(DriveNext)

\* C34: for every mode, base, root and max_length, truncprimes2.c, run with
\* the arguments of a finished run of truncprimes.c, finishes having written
\* the bytes truncprimes.c has written
C34_SameStream == [](pc = "exit" => <>(tp_pc = "done" /\ tp2_written = out))

RECURSIVE NonzeroDigits(_, _)
\* no digit of n in base b is 0
NonzeroDigits(n, b) == n = 0 \/ (n % b # 0 /\ NonzeroDigits(n \div b, b))

\* C35: in a full-tree run (no explicit root) of any mode and base every
\* emitted node value, the roots included, has only nonzero digits
C35_NoZeroDigit ==
  arg_root = 0 => \A i \in 1..Len(emitted) : NonzeroDigits(emitted[i].v, g_base)

(* ------------------- the reader on streams that were changed ------------ *)
ReadMaxBase == 3      \* the streams changed are those of the bases 2..ReadMaxBase

ReadConfigs ==
  [variant : {"truncprimes"}, build : {"tree"}, base : 2..ReadMaxBase, ptype : PrimeTypes,
   maxlength : {MaxLen}, root : {0, 2}]

ReadInit ==
  \E c \in ReadConfigs :
    /\ InitWith(c)
    /\ HashOff
    /\ PredOff
    /\ GenOff

\* the file given to tree_convert is the stream written, with one byte
\* replaced by another value
Changed ==
  /\ pc = "exit"
  /\ r_pc = "idle"
  /\ runs # <<>>
  /\ Stream = out
  /\ \E k \in 1..Len(out), x \in 0..g_base \cup {END_BYTE} :
       /\ x # out[k]
       /\ runs' = [runs EXCEPT ![1].out = [out EXCEPT ![k] = x]]
  /\ UNCHANGED <<cfgVars, auxVars, enumVars, readVars>>

ReadChangedNext == EnumNext \/ Changed \/ ReadNext

ReadChangedSpec == ReadInit /\ [][ReadChangedNext]_vars

RECURSIVE LabelNodes(_, _, _)
\* the labels of a stream from pos on with the level each is read at, the byte
\* at each label-or-end position deciding which of the two starts there
LabelNodes(bytes, pos, lvl) ==
  IF pos + 1 > Len(bytes) THEN <<>>
  ELSE IF bytes[pos + 1] = END_BYTE THEN LabelNodes(bytes, pos + 1, lvl - 1)
  ELSE IF pos + ValueLen > Len(bytes) THEN <<>>
  ELSE <<[lab |-> SubSeq(bytes, pos + 1, pos + ValueLen), lvl |-> lvl]>>
       \o LabelNodes(bytes, pos + ValueLen, lvl + 1)

\* the labels that follow the root value of the file read
FileNodes == LabelNodes(Stream, ValueLen, 0)

\* node i is the sibling read just before node k
PrevSibling(e, i, k) ==
  /\ Siblings(e, i, k)
  /\ \A j \in (i + 1)..(k - 1) : e[j].lvl > e[k].lvl

\* the label of node k is one of a root of a LEFT_AND_RIGHT tree read without
\* a root argument
RootLabel(e, k) == TypeIs("lar") /\ arg_root = 0 /\ e[k].lvl = 0

\* the label of node k passes: its digits lie in 1..base-1 and its digit is
\* greater than that of the sibling read before it, if that one is of the same
\* side (LOR) or has the same left digit (LAR)
GoodLabel(e, k) ==
  LET lab == e[k].lab
  IN  /\ \A d \in LabelDigits(lab) : d \in 1..(g_base - 1)
      /\ \A i \in 1..(k - 1) :
           PrevSibling(e, i, k) =>
             IF ValueLen = 1 THEN e[i].lab[1] < lab[1]
             ELSE e[i].lab[1] = lab[1] => e[i].lab[2] < lab[2]

RECURSIVE NodesOf(_, _), ChildrenOf(_, _)
\* the nodes a row of counts stands for, and the children they have, over
\* the fan-outs 0..k
NodesOf(row, k) == IF k < 0 THEN 0 ELSE NodesOf(row, k - 1) + row[k]
ChildrenOf(row, k) == IF k < 0 THEN 0 ELSE ChildrenOf(row, k - 1) + k * row[k]

\* the nodes counted on level i of the arrays, none beyond the last row
LevelNodes(counts, i) ==
  IF i \in DOMAIN counts THEN NodesOf(counts[i], g_max_children - 1) ELSE 0

\* the `all` count printed for the digit length D, 0 if no row is printed
PrintedAll(D) ==
  LET rs == {n \in 1..Len(stats_out) : stats_out[n].digits = D}
  IN  IF rs = {} THEN 0 ELSE stats_out[CHOOSE n \in rs : TRUE].all

ResMaxLen == 2      \* the max_length argument beside the residues
ResMaxKids == 1     \* children followed below a value beyond unsigned short

\* the divisors of is_prime_tdiv
TdivPrimes == {2, 3, 5, 7, 11, 13, 17, 19, 23, 29, 31, 37, 41, 43}

\* PRIMORIAL_43 = 13082761331670030 in 16 bit parts
SPMOD == <<46, 31411, 48602, 64526>>

TDIV_LIMIT == 47 * 47

\* 2891462833508853932 in 16 bit parts: the constant of prime_test
PrimeBits == <<10272, 35360, 41098, 10412>>

USHRT_MAX == LIMB - 1

\* a < b on uint64_t
U64Lt(a, b) ==
  \E i \in 1..4 : a[i] < b[i] /\ \A j \in 1..(i - 1) : a[j] = b[j]

\* the carry out of 64 bits of a * k and of a + b
U64MulCarry(a, k) ==
  LET n1 == a[3] * k + ((a[4] * k) \div LIMB)
      n2 == a[2] * k + (n1 \div LIMB)
      n3 == a[1] * k + (n2 \div LIMB)
  IN  n3 \div LIMB

U64AddCarry(a, b) ==
  LET n1 == a[3] + b[3] + ((a[4] + b[4]) \div LIMB)
      n2 == a[2] + b[2] + (n1 \div LIMB)
      n3 == a[1] + b[1] + (n2 \div LIMB)
  IN  n3 \div LIMB

\* x % p for a small p
U64Res(x, p) ==
  ((((((x[1] % p) * LIMB + x[2]) % p) * LIMB + x[3]) % p) * LIMB + x[4]) % p

\* x / k for a small k
U64DivSmall(x, k) ==
  LET t2 == (x[1] % k) * LIMB + x[2]
      t3 == (t2 % k) * LIMB + x[3]
      t4 == (t3 % k) * LIMB + x[4]
  IN  <<x[1] \div k, t2 \div k, t3 \div k, t4 \div k>>

RECURSIVE ReduceSPMOD(_, _)
\* x less the multiples SPMOD * 2^j, ..., SPMOD * 2, SPMOD it still holds
ReduceSPMOD(x, j) ==
  LET m == U64MulSmall(SPMOD, Pow(2, j))
      y == IF U64Lt(x, m) THEN x ELSE U64Sub(x, m)
  IN  IF j = 0 THEN y ELSE ReduceSPMOD(y, j - 1)

\* x % SPMOD: SPMOD * 2^10 < 2^64 <= SPMOD * 2^11
ModSPMOD(x) == ReduceSPMOD(x, 10)

\* ++SPMOD_CURR; if (SPMOD_CURR == SPMOD) SPMOD_CURR = 0;
SpmodIncNoWrap(s) == U64Add(s, U64Of(1))

SpmodInc(s) ==
  LET t == U64Add(s, U64Of(1))
  IN  IF t = SPMOD THEN U64Zero ELSE t

\* the backtrack of primes_lar on the residue
SpmodBack(s, b) ==
  IF ~U64Lt(s, U64Of(b - 1)) THEN U64Sub(s, U64Of(b - 1))
  ELSE U64Sub(SPMOD, U64Sub(U64Of(b - 1), s))

RECURSIVE U64Digits(_, _)
\* while (root) ++_g_rlen, root /= _g_base;
U64Digits(x, b) == IF x = U64Zero THEN 0 ELSE 1 + U64Digits(U64DivSmall(x, b), b)

(* the values *)
ValOfU64(x) ==
  [res   |-> [p \in TdivPrimes |-> U64Res(x, p)],
   small |-> IF x[1] = 0 /\ x[2] = 0 /\ x[3] = 0 THEN x[4] ELSE -1]

Fits(n) == IF n <= USHRT_MAX THEN n ELSE -1

val_mul_ui(v, k) ==
  [res   |-> [p \in TdivPrimes |-> (v.res[p] * k) % p],
   small |-> IF v.small >= 0 THEN Fits(v.small * k) ELSE -1]

val_add(v, w) ==
  [res   |-> [p \in TdivPrimes |-> (v.res[p] + w.res[p]) % p],
   small |-> IF v.small >= 0 /\ w.small >= 0 THEN Fits(v.small + w.small) ELSE -1]

val_add_ui(v, k) ==
  [res   |-> [p \in TdivPrimes |-> (v.res[p] + k) % p],
   small |-> IF v.small >= 0 THEN Fits(v.small + k) ELSE -1]

\* k is below the value: the right digits just added are taken off again
val_sub_ui(v, k) ==
  [res   |-> [p \in TdivPrimes |-> (v.res[p] + p * k - k) % p],
   small |-> IF v.small >= 0 THEN v.small - k ELSE -1]

\* mpz_fits_ushort_p
mpz_fits_ushort_p(v) == v.small >= 0

is_prime_tdiv(spmod) == \A p \in TdivPrimes : U64Res(spmod, p) # 0

\* 2891462833508853932uL & (1uL << spmod) for spmod < 64
BitTest(k) == (PrimeBits[4 - (k \div 16)] \div Pow(2, k % 16)) % 2 = 1

\* is_prime_sprp2(n) && is_prime_lucas(n): exact on the values that are
\* known; beyond them the first ResMaxKids candidates of a loop that come
\* through the trial division are taken to pass
SprpLucas(v, kids) == IF v.small >= 0 THEN IsPrime(v.small) ELSE kids < ResMaxKids

prime_test(v, spmod, kids) ==
  LET full == is_prime_tdiv(spmod) /\ SprpLucas(v, kids)
  IN  IF mpz_fits_ushort_p(v)
        THEN IF U64Lt(spmod, U64Of(64)) THEN BitTest(spmod[4])
             ELSE IF U64Lt(spmod, U64Of(TDIV_LIMIT)) THEN is_prime_tdiv(spmod)
             ELSE full
        ELSE full

RECURSIVE test_get_power(_, _, _)
\* get_power(p) on the two arrays of powers: entry k + 1 is base^k
test_get_power(pw, p, b) ==
  IF p < Len(pw) THEN pw
  ELSE test_get_power(
         Append(pw, [val   |-> val_mul_ui(pw[Len(pw)].val, b),
                     spmod |-> ModSPMOD(U64MulSmall(pw[Len(pw)].spmod, b))]),
         p, b)

UINT64_MAX == <<LIMB - 1, LIMB - 1, LIMB - 1, LIMB - 1>>

\* the -r arguments: in base 10 none and 65537; in base 47 a root r with
\* 47 * r = -4 and a root r of ten digits with 47 * r + 47^11 = -5 modulo
\* SPMOD; in the largest base SPMOD - 1 and the largest uint64_t
ResRoots(b) ==
  IF b = 10 THEN {U64Zero, <<0, 0, 1, 1>>}
  ELSE IF b = 47 THEN {<<30, 43028, 33451, 43954>>, <<25, 49049, 56034, 46258>>}
  ELSE {U64Sub(SPMOD, U64Of(1)), UINT64_MAX}

ResBases == {10, 47, MAX_BASE}

ResConfigs ==
  {c \in [ptype : PrimeTypes, base : ResBases, maxlength : {ResMaxLen},
          root : UNION {ResRoots(b) : b \in ResBases}] :
     /\ c.root \in ResRoots(c.base)
     /\ c.ptype = "lar" => c.base # MAX_BASE}

\* init_globals() and the options read by main()
ResInit ==
  /\ ProgOff
  /\ HashOff
  /\ PredOff
  /\ DriverOff
  /\ tp_pair = <<>>
  /\ \E c \in ResConfigs :
       sp = [pc |-> "start", ptype |-> c.ptype, base |-> c.base,
             maxlength |-> c.maxlength, root |-> c.root,
             phase |-> "none", rootl |-> 0, rootr |-> 0,
             depth |-> 0, maxdepth |-> 0, rlen |-> 0,
             stack |-> <<[val |-> ValOfU64(U64Zero), spmod |-> U64Zero]>>,
             powers |-> <<[val |-> ValOfU64(U64Of(1)), spmod |-> U64Of(1)]>>,
             loops |-> <<>>]

ResRest == <<progVars, hashVars, predVars, TP_next, tp_state, tp_value, tp_ret,
             tp_pc, tp_out, tp_pair, tp_r>>

SP_CURR == sp.stack[sp.depth + 1]
SP_PREV == sp.stack[sp.depth]
SpLoopTop == sp.loops[Len(sp.loops)]

\* _g_stack[i] and _g_spmods[i] are written, the arrays grown where needed
SetFrame(stack, i, e) ==
  IF i + 1 <= Len(stack) THEN [stack EXCEPT ![i + 1] = e] ELSE Append(stack, e)

\* primes_*_init(root): primes_init_root up to the call of fptr, or the
\* start of the loop of primes_init_1digit
SpStart ==
  /\ sp.pc = "start"
  /\ IF sp.root # U64Zero
       THEN sp' = [sp EXCEPT
              !.stack = SetFrame(@, 0, [val   |-> ValOfU64(sp.root),
                                        spmod |-> ModSPMOD(sp.root)]),
              !.depth = 0,
              !.maxdepth = IF sp.maxlength >= 0 THEN sp.maxlength - 0 ELSE 0,
              !.rlen = U64Digits(sp.root, sp.base),
              !.phase = "root",
              !.pc = "enter"]
       ELSE sp' = [sp EXCEPT !.phase = "one", !.rootl = 2, !.pc = "roots"]
  /\ UNCHANGED ResRest

\* the loop heads of primes_init_1digit and of primes_init_2digit
SpRoots ==
  /\ sp.pc = "roots"
  /\ IF sp.phase = "one"
       THEN IF sp.maxlength < 1 \/ ~(sp.rootl < sp.base)
              THEN IF sp.ptype = "lar"
                     THEN sp' = [sp EXCEPT !.phase = "two", !.rootl = 1, !.rootr = 0]
                     ELSE sp' = [sp EXCEPT !.pc = "done"]
              ELSE sp' = [sp EXCEPT
                     !.stack = SetFrame(@, 0, [val   |-> ValOfU64(U64Of(sp.rootl)),
                                               spmod |-> ModSPMOD(U64Of(sp.rootl))]),
                     !.depth = 0,
                     !.rlen = 1,
                     !.maxdepth = IF sp.maxlength >= 1 THEN sp.maxlength - 1 ELSE 0,
                     !.pc = "roottest"]
       ELSE IF sp.maxlength < 2 \/ ~(sp.rootl < sp.base)
              THEN sp' = [sp EXCEPT !.pc = "done"]
              ELSE IF ~(sp.rootr < sp.base)
                     THEN sp' = [sp EXCEPT !.rootl = @ + 1, !.rootr = 0]
                     ELSE sp' = [sp EXCEPT
                            !.stack = SetFrame(@, 0,
                               [val   |-> ValOfU64(U64Of(sp.rootl * sp.base + sp.rootr)),
                                spmod |-> ModSPMOD(U64Of(sp.rootl * sp.base + sp.rootr))]),
                            !.depth = 0,
                            !.rlen = 2,
                            !.maxdepth = IF sp.maxlength >= 2 THEN sp.maxlength - 2 ELSE 0,
                            !.pc = "roottest"]
  /\ UNCHANGED ResRest

\* ++root of primes_init_1digit, ++rootr of primes_init_2digit
SpNextRoot(s) ==
  IF s.phase = "one" THEN [s EXCEPT !.rootl = @ + 1, !.pc = "roots"]
  ELSE IF s.phase = "two" THEN [s EXCEPT !.rootr = @ + 1, !.pc = "roots"]
  ELSE [s EXCEPT !.pc = "done"]

\* if (PRIME_TEST_CURR) of the two loops over the roots
SpRootTest ==
  /\ sp.pc = "roottest"
  /\ IF prime_test(SP_CURR.val, SP_CURR.spmod, 0)
       THEN sp' = [sp EXCEPT !.pc = "enter"]
       ELSE sp' = SpNextRoot(sp)
  /\ UNCHANGED ResRest

\* the length test at the head of primes_r, primes_l, primes_lor, primes_lar
SpWithin(d) ==
  IF sp.ptype = "lar" THEN 2 * d <= sp.maxdepth ELSE d <= sp.maxdepth

\* the head of a recursion function: ++_g_depth, and within the length the
\* new frame
SpEnter ==
  /\ sp.pc = "enter"
  /\ LET d == sp.depth + 1
         prev == sp.stack[d]
         shifted == [val   |-> val_mul_ui(prev.val, sp.base),
                     spmod |-> ModSPMOD(U64MulSmall(prev.spmod, sp.base))]
     IN  IF SpWithin(d)
           THEN sp' = [sp EXCEPT
                  !.depth = d,
                  !.stack = SetFrame(@, d, IF sp.ptype \in {"r", "lar"} THEN shifted
                                            ELSE prev),
                  !.loops = Append(@, [side |-> 0, d |-> 1, dr |-> 1, kids |-> 0]),
                  !.pc = "loop"]
           ELSE sp' = [sp EXCEPT
                  !.depth = d,
                  !.loops = Append(@, [side |-> 0, d |-> sp.base, dr |-> 1, kids |-> 0]),
                  !.pc = "leave"]
  /\ UNCHANGED ResRest

\* the index of the power added on the left
SpPowerIndex ==
  IF sp.ptype = "lar" THEN sp.rlen + 2 * sp.depth - 1 ELSE sp.rlen + sp.depth - 1

\* mpz_add(STACK_CURR,STACK_CURR,POWER_CURR) and the line after it
LeftStep(s, pw) ==
  [val   |-> val_add(s.val, pw.val),
   spmod |-> ModSPMOD(U64Add(s.spmod, pw.spmod))]

\* mpz_add_ui(STACK_CURR,STACK_CURR,1) and the three lines after it
RightStep(s) ==
  [val |-> val_add_ui(s.val, 1), spmod |-> SpmodInc(s.spmod)]

\* the head of the loop over d (dl in primes_lar) and its first statements
SpLoop ==
  /\ sp.pc = "loop"
  /\ LET f == SpLoopTop
         right == sp.ptype = "r" \/ (sp.ptype = "lor" /\ f.side = 1)
         pws == test_get_power(sp.powers, SpPowerIndex, sp.base)
     IN  IF f.d < sp.base
           THEN IF right
                  THEN sp' = [sp EXCEPT
                         !.stack[sp.depth + 1] = RightStep(@),
                         !.pc = "test"]
                  ELSE sp' = [sp EXCEPT
                         !.powers = pws,
                         !.stack[sp.depth + 1] = LeftStep(@, pws[SpPowerIndex + 1]),
                         !.loops[Len(sp.loops)].dr = 1,
                         !.pc = IF sp.ptype = "lar" THEN "right" ELSE "test"]
           ELSE IF sp.ptype = "lor" /\ f.side = 0
                  THEN sp' = [sp EXCEPT
                         !.stack[sp.depth + 1] =
                            [val   |-> val_mul_ui(SP_PREV.val, sp.base),
                             spmod |-> ModSPMOD(U64MulSmall(SP_PREV.spmod, sp.base))],
                         !.loops[Len(sp.loops)].side = 1,
                         !.loops[Len(sp.loops)].d = 1]
                  ELSE sp' = [sp EXCEPT !.pc = "leave"]
  /\ UNCHANGED ResRest

\* primes_lar: the head of the loop over dr, and after the loop the backtrack
\* of the right digit and ++dl
SpRight ==
  /\ sp.pc = "right"
  /\ IF SpLoopTop.dr < sp.base
       THEN sp' = [sp EXCEPT !.stack[sp.depth + 1] = RightStep(@), !.pc = "test"]
       ELSE sp' = [sp EXCEPT
              !.stack[sp.depth + 1] =
                 [val   |-> val_sub_ui(@.val, sp.base - 1),
                  spmod |-> SpmodBack(@.spmod, sp.base)],
              !.loops[Len(sp.loops)].d = @ + 1,
              !.pc = "loop"]
  /\ UNCHANGED ResRest

\* ++d, or ++dr in primes_lar
SpNextDigit(s) ==
  IF s.ptype = "lar"
    THEN [s EXCEPT !.loops[Len(s.loops)].dr = @ + 1, !.pc = "right"]
    ELSE [s EXCEPT !.loops[Len(s.loops)].d = @ + 1, !.pc = "loop"]

\* if (PRIME_TEST_CURR) in the loops of the recursion functions
SpTest ==
  /\ sp.pc = "test"
  /\ IF prime_test(SP_CURR.val, SP_CURR.spmod, SpLoopTop.kids)
       THEN sp' = [sp EXCEPT !.loops[Len(sp.loops)].kids = @ + 1, !.pc = "enter"]
       ELSE sp' = SpNextDigit(sp)
  /\ UNCHANGED ResRest

\* --_g_depth and the return to the caller
SpLeave ==
  /\ sp.pc = "leave"
  /\ LET s == [sp EXCEPT !.depth = @ - 1, !.loops = Front(@)]
     IN  sp' = IF s.loops = <<>> THEN SpNextRoot(s) ELSE SpNextDigit(s)
  /\ UNCHANGED ResRest

ResNext ==
  \/ SpStart
  \/ SpRoots
  \/ SpRootTest
  \/ SpEnter
  \/ SpLoop
  \/ SpRight
  \/ SpTest
  \/ SpLeave

ResSpec == ResInit /\ [][ResNext]_vars

\* what the residue s has to be for the value v
ResidueOf(s, v) ==
  /\ U64Lt(s, SPMOD)
  /\ \A p \in TdivPrimes : U64Res(s, p) = v.res[p]

\* the product of the primes of is_prime_tdiv is the modulus
RECURSIVE ProductOf(_)
ProductOf(S) ==
  IF S = {} THEN U64Of(1)
  ELSE LET p == CHOOSE q \in S : \A r \in S : q >= r
       IN  U64MulSmall(ProductOf(S \ {p}), p)

RECURSIVE PowMod(_, _, _)
\* b^k modulo p
PowMod(b, k, p) == IF k = 0 THEN 1 % p ELSE (PowMod(b, k - 1, p) * (b % p)) % p

\* prime_test is being called on the current frame
TestCalled == sp.pc \in {"test", "roottest"}

\* primes_lar has just taken the right digits off again
Backtracked == sp.pc = "loop" /\ sp.ptype = "lar" /\ SpLoopTop.d >= 2

\* C38: whenever prime_test is called on the current frame, and after the
\* backtrack of primes_lar, the residue of the frame is below the modulus, the
\* product of the primes up to 43, and is the value of the frame modulo it, in
\* all four modes and after a wrap-around; every stored power of the
\* base has its residue likewise; and no product or sum of the residues goes
\* beyond 64 bits
C38_Residue ==
  sp.pc # "off" =>
    /\ ProductOf(TdivPrimes) = SPMOD
    /\ TestCalled \/ Backtracked => ResidueOf(SP_CURR.spmod, SP_CURR.val)
    /\ \A k \in 1..Len(sp.powers) :
         /\ ResidueOf(sp.powers[k].spmod, sp.powers[k].val)
         /\ sp.powers[k].val.res = [p \in TdivPrimes |-> PowMod(sp.base, k - 1, p)]
         /\ U64MulCarry(sp.powers[k].spmod, sp.base) = 0
    /\ \A i \in 1..Len(sp.stack) :
         /\ U64MulCarry(sp.stack[i].spmod, sp.base) = 0
         /\ \A k \in 1..Len(sp.powers) :
              U64AddCarry(sp.stack[i].spmod, sp.powers[k].spmod) = 0

\* primes_lar in base 47 has taken a right digit through the wrap-around and
\* has backtracked the residue from below base-1 to just under the modulus
C38_Witness ==
  /\ Backtracked
  /\ sp.base = 47
  /\ U64Lt(U64Sub(SPMOD, U64Of(sp.base)), sp.stack[sp.depth + 1].spmod)

====
